---- MODULE Spec2Model ----
(***************************************************************************)
(* GroundSwell image metadata tool: the metadata-embedding path of the two *)
(* servers of the repository, the in-memory one (src/api/index.py, "api")  *)
(* and the file-based one (src/app.py, "app").                             *)
(*                                                                         *)
(* Text (a Python str) is a sequence of characters, each a one-character   *)
(* string; the fixed text of the XMP template between two interpolation    *)
(* points is one atomic piece ("Tpl0" .. "Tpl12", "LiOpen", "LiClose").    *)
(* A byte string is a sequence of integers: 0..255 is that byte, a larger  *)
(* number stands for a fixed run of bytes (a blob) of width BlobLen.       *)
(***************************************************************************)
EXTENDS Integers, Sequences, FiniteSets, TLC

VARIABLES srv, pillow_saves_xmp, file_storage, upload_dir, processed_dir, last, proc

vars == <<srv, pillow_saves_xmp, file_storage, upload_dir, processed_dir, last, proc>>

(***************************************************************************)
(* Bounds of the model.                                                    *)
(***************************************************************************)
\* longest free text tried for the keyword field
MaxLen == 3
\* longest free text tried for every other field
MaxFieldLen == 2

(***************************************************************************)
(* Characters.                                                             *)
(***************************************************************************)
\* the printable ASCII characters, code 32 first
Ascii ==
  << " ", "!", "\"", "#", "$", "%", "&", "'", "(", ")", "*", "+", ",", "-", ".", "/",
     "0", "1", "2", "3", "4", "5", "6", "7", "8", "9", ":", ";", "<", "=", ">", "?",
     "@", "A", "B", "C", "D", "E", "F", "G", "H", "I", "J", "K", "L", "M", "N", "O",
     "P", "Q", "R", "S", "T", "U", "V", "W", "X", "Y", "Z", "[", "\\", "]", "^", "_",
     "U+0060", "a", "b", "c", "d", "e", "f", "g", "h", "i", "j", "k", "l", "m", "n", "o",
     "p", "q", "r", "s", "t", "u", "v", "w", "x", "y", "z", "{", "|", "}", "~" >>

AsciiChars == {Ascii[i] : i \in 1..Len(Ascii)}

Ord(c) == 31 + (CHOOSE i \in 1..Len(Ascii) : Ascii[i] = c)

\* U+00E9, two bytes in UTF-8, one byte in Latin-1
EAcute == "U+00E9"
\* U+2120 (the service mark of the brand name), three bytes in UTF-8, not in Latin-1
ServiceMark == "U+2120"
\* a lone surrogate, which JSON can carry ("\ud800") and no codec can encode
Surrogate == "U+D800"
\* a run of 65536 letters x, written as one element
LongRun == "x*65536"

Whitespace == {" "}

\* name = v, and then F(name): the statements of the code run one after the other
Then(v, F(_)) == CHOOSE r \in {F(d) : d \in {v}} : TRUE

(***************************************************************************)
(* Results of a call: a value, or the exception it raised.                 *)
(***************************************************************************)
Ok(v) == [ok |-> TRUE, val |-> v, err |-> ""]

Raise(e) == [ok |-> FALSE, val |-> <<>>, err |-> e]

(***************************************************************************)
(* JSON values of the metadata mapping (SaveMetadataRequest.metadata is a  *)
(* plain dict: any JSON value may sit under a key).  s is the text of a    *)
(* string, the digits of a number, the one-character items of a list.      *)
(***************************************************************************)
JStr(s) == [t |-> "str", s |-> s]

JNull == [t |-> "null", s |-> <<>>]

JNum == [t |-> "num", s |-> <<"7">>]

JList == [t |-> "list", s |-> <<"a", "b">>]

RECURSIVE ListRepr(_)
\* str() of a list of one-character strings, without the brackets: 'a', 'b'
ListRepr(items) ==
  IF items = <<>> THEN <<>>
  ELSE <<"'", Head(items), "'">>
       \o (IF Len(items) > 1 THEN <<",", " ">> ELSE <<>>)
       \o ListRepr(Tail(items))

\* what an f-string puts in place of {v}: format(v, ''), that is str(v)
Format(v) ==
  CASE v.t = "str"  -> v.s
    [] v.t = "null" -> <<"N", "o", "n", "e">>
    [] v.t = "num"  -> v.s
    [] v.t = "list" -> <<"[">> \o ListRepr(v.s) \o <<"]">>

\* metadata.get(key, default)
Get(metadata, key, default) ==
  IF key \in DOMAIN metadata THEN metadata[key] ELSE JStr(default)

GroundSwell == <<"G", "r", "o", "u", "n", "d", "S", "w", "e", "l", "l">>

BusinessOwnershipPlatform ==
  <<"B", "u", "s", "i", "n", "e", "s", "s", " ", "O", "w", "n", "e", "r", "s", "h", "i", "p",
    " ", "P", "l", "a", "t", "f", "o", "r", "m">>

Website ==
  <<"w", "w", "w", ".", "g", "r", "o", "u", "n", "d", "s", "w", "e", "l", "l", ".", "c", "o">>

Phone == <<"4", "3", "5", "-", "2", "1", "4", "-", "2", "9", "9", "7">>

(***************************************************************************)
(* str.split(',') and str.strip()                                          *)
(***************************************************************************)
RECURSIVE SplitFrom(_, _, _)
\* the pieces of s from position i on, cur being the piece read so far
SplitFrom(s, i, cur) ==
  IF i > Len(s) THEN <<cur>>
  ELSE IF s[i] = "," THEN <<cur>> \o SplitFrom(s, i + 1, <<>>)
  ELSE SplitFrom(s, i + 1, Append(cur, s[i]))

Split(s) == SplitFrom(s, 1, <<>>)

RECURSIVE LStrip(_)
LStrip(s) == IF s # <<>> /\ Head(s) \in Whitespace THEN LStrip(Tail(s)) ELSE s

RECURSIVE RStrip(_)
RStrip(s) ==
  IF s # <<>> /\ s[Len(s)] \in Whitespace THEN RStrip(SubSeq(s, 1, Len(s) - 1)) ELSE s

Strip(s) == RStrip(LStrip(s))

\* the tokens kept as they stand between the commas
Keywords_Untrimmed(subject) ==
  SelectSeq(Split(subject), LAMBDA kw : Strip(kw) # <<>>)

\* [kw.strip() for kw in subject.split(',') if kw.strip()]
Keywords(subject) ==
  LET parts == Split(subject)
      kept  == SelectSeq(parts, LAMBDA kw : Strip(kw) # <<>>)
  IN [i \in 1..Len(kept) |-> Strip(kept[i])]

RECURSIVE JoinLi(_)
\* '\n'.join([f'                        <rdf:li>{kw}</rdf:li>' for kw in keywords])
JoinLi(keywords) ==
  IF keywords = <<>> THEN <<>>
  ELSE <<"LiOpen">> \o Head(keywords) \o <<"LiClose">>
       \o (IF Len(keywords) > 1 THEN <<"NL">> ELSE <<>>)
       \o JoinLi(Tail(keywords))

(***************************************************************************)
(* create_xmp_packet.  The two servers differ in the first piece only: the *)
(* file-based one declares one more namespace.                             *)
(***************************************************************************)
FirstPiece(s) == IF s = "api" THEN "Tpl0" ELSE "Tpl0x"

create_xmp_packet(s, metadata) ==
  LET title        == Get(metadata, "xmp_title", <<>>)
      description  == Get(metadata, "xmp_description", <<>>)
      creator      == Get(metadata, "xmp_creator", GroundSwell)
      rights       == Get(metadata, "xmp_rights", <<>>)
      subject      == Get(metadata, "xmp_subject", <<>>)
      headline     == Get(metadata, "xmp_headline", <<>>)
      credit       == Get(metadata, "xmp_credit", GroundSwell)
      source       == Get(metadata, "xmp_source", GroundSwell)
      date_created == Get(metadata, "xmp_date_created", <<>>)
      category     == Get(metadata, "xmp_category", BusinessOwnershipPlatform)
  IN IF subject.t # "str" THEN Raise("AttributeError")
     ELSE Ok( <<FirstPiece(s)>> \o Format(title)
           \o <<"Tpl1">> \o Format(description)
           \o <<"Tpl2">> \o Format(creator)
           \o <<"Tpl3">> \o Format(rights)
           \o <<"Tpl4">> \o JoinLi(Keywords(subject.s))
           \o <<"Tpl5">> \o Format(headline)
           \o <<"Tpl6">> \o Format(credit)
           \o <<"Tpl7">> \o Format(source)
           \o <<"Tpl8">> \o Format(date_created)
           \o <<"Tpl9">> \o Format(category)
           \o <<"Tpl10">> \o Format(Get(metadata, "xmp_website", Website))
           \o <<"Tpl11">> \o Format(Get(metadata, "xmp_phone", Phone))
           \o <<"Tpl12">> )

(***************************************************************************)
(* Byte strings.  Blob(kind, n) is a fixed run of bytes written as one     *)
(* element: kind 1 the template piece n, kind 2 the encoded LongRun,       *)
(* kind 3 the coded picture of a JPEG stream (tables, frame header and     *)
(* scan), kind 4 the compressed picture of a PNG stream, kind 5 the body   *)
(* of a GIF stream.                                                        *)
(***************************************************************************)
Blob(kind, n) == 256 + 1000 * kind + n

IsBlob(b) == b > 255

BlobKind(b) == (b - 256) \div 1000

BlobNum(b) == (b - 256) % 1000

\* the template pieces and their lengths in bytes (they are pure ASCII)
Pieces ==
  <<"Tpl0", "Tpl0x", "Tpl1", "Tpl2", "Tpl3", "Tpl4", "Tpl5", "Tpl6", "Tpl7", "Tpl8",
    "Tpl9", "Tpl10", "Tpl11", "Tpl12", "LiOpen", "LiClose">>

PieceLen == <<649, 721, 166, 147, 163, 114, 87, 52, 50, 55, 57, 202, 70, 183, 32, 9>>

PieceSet == {Pieces[i] : i \in 1..Len(Pieces)}

PieceIndex(p) == CHOOSE i \in 1..Len(Pieces) : Pieces[i] = p

\* the number of bytes an element of a byte string stands for
BlobLen(b) ==
  CASE ~IsBlob(b)      -> 1
    [] BlobKind(b) = 1 -> PieceLen[BlobNum(b)]
    [] BlobKind(b) = 2 -> 65536
    [] OTHER           -> 600

RECURSIVE WidthOf(_, _, _)
\* the number of bytes the elements lo..hi of data stand for
WidthOf(data, lo, hi) ==
  IF lo > hi THEN 0
  ELSE IF lo = hi THEN BlobLen(data[lo])
  ELSE LET mid == (lo + hi) \div 2
       IN WidthOf(data, lo, mid) + WidthOf(data, mid + 1, hi)

\* len(data)
ByteLen(data) == WidthOf(data, 1, Len(data))

RECURSIVE SeekEnd(_, _, _, _, _)
\* the index e in lo..hi with the elements start..e of data w bytes wide, -1 when none
SeekEnd(data, start, w, lo, hi) ==
  IF lo > hi THEN -1
  ELSE LET mid == (lo + hi) \div 2
       IN Then(WidthOf(data, start, mid), LAMBDA got :
            IF got = w THEN mid
            ELSE IF got < w THEN SeekEnd(data, start, w, mid + 1, hi)
            ELSE SeekEnd(data, start, w, lo, mid - 1))

\* the index e with the elements start..e of data w bytes wide, -1 when there is none
TakeEnd(data, start, w) == SeekEnd(data, start, w, start - 1, Len(data))

RECURSIVE FlattenRange(_, _, _)
\* the sequences lo..hi of seqs, one after the other
FlattenRange(seqs, lo, hi) ==
  IF lo > hi THEN <<>>
  ELSE IF lo = hi THEN seqs[lo]
  ELSE LET mid == (lo + hi) \div 2
       IN FlattenRange(seqs, lo, mid) \o FlattenRange(seqs, mid + 1, hi)

Concat(seqs) == FlattenRange(seqs, 1, Len(seqs))

\* the UTF-8 bytes of one character
Utf8Char(c) ==
  CASE c \in AsciiChars -> <<Ord(c)>>
    [] c = "NL"         -> <<10>>
    [] c = EAcute       -> <<195, 169>>
    [] c = ServiceMark  -> <<226, 132, 160>>
    [] c = LongRun      -> <<Blob(2, 0)>>
    [] c \in PieceSet   -> <<Blob(1, PieceIndex(c))>>

Utf8(text) == Concat([i \in 1..Len(text) |-> Utf8Char(text[i])])

HasChar(text, c) == \E i \in 1..Len(text) : text[i] = c

\* text.encode('utf-8'): a lone surrogate cannot be encoded
EncodeUtf8(text) ==
  IF HasChar(text, Surrogate) THEN Raise("UnicodeEncodeError") ELSE Ok(Utf8(text))

\* value.encode('utf-8') of a JSON value: only a str has the method
EncodeValue(v) == IF v.t # "str" THEN Raise("AttributeError") ELSE EncodeUtf8(v.s)

\* the Latin-1 bytes of a text, for the characters that have one
Latin1Char(c) ==
  CASE c \in AsciiChars -> <<Ord(c)>>
    [] c = "NL"         -> <<10>>
    [] c = EAcute       -> <<233>>
    [] c = LongRun      -> <<Blob(2, 0)>>
    [] c \in PieceSet   -> <<Blob(1, PieceIndex(c))>>

IsLatin1(text) == ~HasChar(text, Surrogate) /\ ~HasChar(text, ServiceMark)

Latin1(text) == Concat([i \in 1..Len(text) |-> Latin1Char(text[i])])

\* n.to_bytes(2, 'big')
ToBytes2(n) == IF n > 65535 THEN Raise("OverflowError") ELSE Ok(<<n \div 256, n % 256>>)

\* struct.pack(">H", n) and struct.pack(">I", n), n within range
Be16(n) == <<n \div 256, n % 256>>

Be32(n) == <<n \div 16777216, (n \div 65536) % 256, (n \div 256) % 256, n % 256>>

\* the bytes of an ASCII literal of the code
AsciiBytes(text) == [i \in 1..Len(text) |-> Ord(text[i])]

StartsWith(data, prefix) ==
  Len(data) >= Len(prefix) /\ SubSeq(data, 1, Len(prefix)) = prefix

(***************************************************************************)
(* piexif: the EXIF dictionary and its TIFF encoding (big-endian).         *)
(* An EXIF dictionary is [zeroth, exif], each a function from tag ids to   *)
(* byte strings.                                                           *)
(***************************************************************************)
TagImageDescription == 270
TagMake == 271
TagArtist == 315
TagCopyright == 33432
TagExifIFD == 34665
TagUserComment == 37510

TypeAscii == 2
TypeLong == 4
TypeUndefined == 7

TagType(tag) == IF tag = TagUserComment THEN TypeUndefined ELSE TypeAscii

EmptyFn == [x \in {} |-> <<>>]

\* the dictionary of the except branch; first is the 1st IFD, thumbnail <<>> is None
EmptyExif == [zeroth |-> EmptyFn, exif |-> EmptyFn, first |-> EmptyFn, thumbnail |-> <<>>]

TagJPEGInterchangeFormat == 513
TagJPEGInterchangeFormatLength == 514

\* an assignment that leaves out a tag whose value is empty
SetTag_SkipEmpty(d, tag, value) ==
  IF value = <<>> THEN d
  ELSE [t \in DOMAIN d \cup {tag} |-> IF t = tag THEN value ELSE d[t]]

\* d[tag] = value
SetTag(d, tag, value) == [t \in DOMAIN d \cup {tag} |-> IF t = tag THEN value ELSE d[t]]

RECURSIVE SortedSeq(_)
\* sorted(keys)
SortedSeq(keys) ==
  IF keys = {} THEN <<>>
  ELSE LET m == CHOOSE k \in keys : \A j \in keys : k <= j
       IN <<m>> \o SortedSeq(keys \ {m})

ExifHeader == <<69, 120, 105, 102, 0, 0>>

TiffHeader == <<77, 77, 0, 42, 0, 0, 0, 8>>

Zeros(n) == [i \in 1..n |-> 0]

\* _value_to_bytes: [length_str, value_str, four_bytes_over]
ValueToBytes(raw_value, value_type, offset) ==
  LET new_value == IF value_type = TypeAscii THEN raw_value \o <<0>> ELSE raw_value
      length    == ByteLen(new_value)
  IN IF length > 4
     THEN [length_str |-> Be32(length), value_str |-> Be32(offset), over |-> new_value]
     ELSE [length_str |-> Be32(length), value_str |-> new_value \o Zeros(4 - length),
           over |-> <<>>]

RECURSIVE IfdEntries(_, _, _, _, _)
\* the loop of _dict_to_bytes over the sorted keys: [entries, values]
IfdEntries(ifd_dict, keys, base, entries, values) ==
  IF keys = <<>> THEN [entries |-> entries, values |-> values]
  ELSE LET key == Head(keys)
       IN Then(ValueToBytes(ifd_dict[key], TagType(key), base + ByteLen(values)), LAMBDA v :
            IfdEntries(ifd_dict, Tail(keys), base,
                       entries \o Be16(key) \o Be16(TagType(key)) \o v.length_str \o v.value_str,
                       values \o v.over))

\* _dict_to_bytes(ifd_dict, ifd, ifd_offset); the 0th IFD counts its pointer to the
\* Exif IFD, which is written after the sorted entries
DictToBytes(ifd_dict, is_zeroth, ifd_offset) ==
  LET tag_count      == Cardinality(DOMAIN ifd_dict) + (IF is_zeroth THEN 1 ELSE 0)
      entries_length == 2 + tag_count * 12 + (IF is_zeroth THEN 4 ELSE 0)
      keys           == SortedSeq(DOMAIN ifd_dict \ {TagExifIFD})
  IN Then(IfdEntries(ifd_dict, keys, 8 + entries_length + ifd_offset, <<>>, <<>>), LAMBDA r :
       [entries |-> Be16(tag_count) \o r.entries, values |-> r.values])

\* _get_thumbnail(jpeg), for a thumbnail without APPn segments
GetThumbnail(jpeg) == jpeg

\* the 1st IFD and the thumbnail as dump writes them at offset at of the TIFF block;
\* the two thumbnail tags are written after the sorted entries
FirstBytes(exif_dict, at) ==
  LET first_ifd == [t \in DOMAIN exif_dict.first
                            \ {TagJPEGInterchangeFormat, TagJPEGInterchangeFormatLength}
                      |-> exif_dict.first[t]]
      tag_count == Cardinality(DOMAIN first_ifd) + 2
      keys      == SortedSeq(DOMAIN first_ifd)
  IN Then(IfdEntries(first_ifd, keys, at + 2 + tag_count * 12 + 4, <<>>, <<>>), LAMBDA r :
     Then(GetThumbnail(exif_dict.thumbnail), LAMBDA thumbnail :
       Be16(tag_count) \o r.entries
       \o Be16(TagJPEGInterchangeFormat) \o Be16(TypeLong) \o Be32(1)
       \o Be32(at + 2 + tag_count * 12 + 4 + ByteLen(r.values))
       \o Be16(TagJPEGInterchangeFormatLength) \o Be16(TypeLong) \o Be32(1)
       \o Be32(ByteLen(thumbnail))
       \o Zeros(4) \o r.values \o thumbnail))

\* piexif.dump(exif_dict), the Exif IFD being non-empty; the 1st IFD is written
\* when the dictionary holds a thumbnail
piexif_dump(exif_dict) ==
  LET zeroth_ifd == [t \in DOMAIN exif_dict.zeroth \ {TagExifIFD} |-> exif_dict.zeroth[t]]
      first_is   == exif_dict.thumbnail # <<>>
  IN Then(DictToBytes(zeroth_ifd, TRUE, 0), LAMBDA zeroth_set :
     Then(ByteLen(zeroth_set.entries) + 12 + 4 + ByteLen(zeroth_set.values),
          LAMBDA zeroth_length :
     Then(DictToBytes(exif_dict.exif, FALSE, zeroth_length), LAMBDA exif_set :
     Then(8 + zeroth_length + ByteLen(exif_set.entries) + ByteLen(exif_set.values),
          LAMBDA pointer_value :
       ExifHeader \o TiffHeader
       \o zeroth_set.entries
       \o Be16(TagExifIFD) \o Be16(TypeLong) \o Be32(1) \o Be32(8 + zeroth_length)
       \o (IF first_is THEN Be32(pointer_value) ELSE Zeros(4)) \o zeroth_set.values
       \o exif_set.entries \o exif_set.values
       \o (IF first_is THEN FirstBytes(exif_dict, pointer_value) ELSE <<>>)))))

(***************************************************************************)
(* piexif.load of the EXIF block Pillow found in the source image.         *)
(***************************************************************************)
\* the big-endian numbers at byte offset o (counted from 0) of t
U16(t, o) == t[o + 1] * 256 + t[o + 2]

U32(t, o) == ((t[o + 1] * 256 + t[o + 2]) * 256 + t[o + 3]) * 256 + t[o + 4]

\* the bytes o .. o+n-1 of t are there and are plain bytes
Readable(t, o, n) ==
  o >= 0 /\ n >= 0 /\ o + n <= Len(t) /\ \A i \in (o + 1)..(o + n) : ~IsBlob(t[i])

\* the entry at offset e of an IFD of t: [ok, tag, type, value]
ReadEntry(t, e) ==
  IF ~Readable(t, e, 12) THEN [ok |-> FALSE, tag |-> 0, type |-> 0, value |-> <<>>]
  ELSE LET tag   == U16(t, e)
           type  == U16(t, e + 2)
           count == U32(t, e + 4)
           size  == IF type = TypeLong THEN 4 * count ELSE count
           at    == IF size > 4 THEN U32(t, e + 8) ELSE e + 8
       IN IF ~Readable(t, at, size) THEN [ok |-> FALSE, tag |-> tag, type |-> type, value |-> <<>>]
          ELSE LET raw == SubSeq(t, at + 1, at + size)
               IN [ok |-> TRUE, tag |-> tag, type |-> type,
                   value |-> IF type = TypeAscii /\ size > 0
                             THEN SubSeq(raw, 1, size - 1) ELSE raw]

\* the IFD at offset o of t: [ok, dict]
ReadIfd(t, o) ==
  IF ~Readable(t, o, 2) THEN [ok |-> FALSE, dict |-> EmptyFn]
  ELSE LET n == U16(t, o)
       IN Then([i \in 1..n |-> ReadEntry(t, o + 2 + 12 * (i - 1))], LAMBDA es :
            IF \E i \in 1..n : ~es[i].ok THEN [ok |-> FALSE, dict |-> EmptyFn]
            ELSE [ok |-> TRUE,
                  dict |-> [tag \in {es[i].tag : i \in 1..n} |->
                              (es[CHOOSE i \in 1..n : es[i].tag = tag]).value]])

\* the 1st IFD the pointer after the n entries of the 0th IFD leads to, and the
\* thumbnail its two tags delimit: [ok, first, thumbnail]
ReadFirst(t, n) ==
  LET at == 8 + 2 + 12 * n
  IN IF ~Readable(t, at, 4) THEN [ok |-> FALSE, first |-> EmptyFn, thumbnail |-> <<>>]
     ELSE IF U32(t, at) = 0 THEN [ok |-> TRUE, first |-> EmptyFn, thumbnail |-> <<>>]
     ELSE Then(ReadIfd(t, U32(t, at)), LAMBDA first :
            IF ~first.ok THEN [ok |-> FALSE, first |-> EmptyFn, thumbnail |-> <<>>]
            ELSE IF ~({TagJPEGInterchangeFormat, TagJPEGInterchangeFormatLength}
                        \subseteq DOMAIN first.dict)
                 THEN [ok |-> TRUE, first |-> first.dict, thumbnail |-> <<>>]
            ELSE LET start == U32(first.dict[TagJPEGInterchangeFormat], 0)
                     size  == U32(first.dict[TagJPEGInterchangeFormatLength], 0)
                 IN Then(TakeEnd(t, start + 1, size), LAMBDA e :
                      [ok |-> TRUE, first |-> first.dict,
                       thumbnail |-> SubSeq(t, start + 1, IF e = -1 THEN Len(t) ELSE e)]))

\* piexif.load(data): the dictionary, or the exception it raises (no data, no header,
\* a truncated block)
piexif_load(data) ==
  IF ~StartsWith(data, ExifHeader \o TiffHeader) THEN Raise("ValueError")
  ELSE LET t == SubSeq(data, 7, Len(data))
       IN Then(ReadIfd(t, 8), LAMBDA zeroth :
            IF ~zeroth.ok THEN Raise("struct.error")
            ELSE Then(ReadFirst(t, U16(t, 8)), LAMBDA tail :
            IF ~tail.ok THEN Raise("struct.error")
            ELSE IF TagExifIFD \notin DOMAIN zeroth.dict
                 THEN Ok([zeroth |-> zeroth.dict, exif |-> EmptyFn,
                          first |-> tail.first, thumbnail |-> tail.thumbnail])
            ELSE IF Len(zeroth.dict[TagExifIFD]) # 4 THEN Raise("struct.error")
            ELSE Then(ReadIfd(t, U32(zeroth.dict[TagExifIFD], 0)), LAMBDA sub :
                   IF ~sub.ok THEN Raise("struct.error")
                   ELSE Ok([zeroth |-> zeroth.dict, exif |-> sub.dict,
                            first |-> tail.first, thumbnail |-> tail.thumbnail]))))

(***************************************************************************)
(* CRC-32 (zlib.crc32), kept as two 16-bit halves.                         *)
(***************************************************************************)
RECURSIVE XorBits(_, _, _)
\* bitwise exclusive or of two naturals below 2^w
XorBits(a, b, w) ==
  IF w = 1 THEN (a + b) % 2
  ELSE 2 * XorBits(a \div 2, b \div 2, w - 1) + ((a + b) % 2)

\* the exclusive or of two hexadecimal digits, at 16 * a + b + 1
XorTable == [n \in 1..256 |-> XorBits((n - 1) \div 16, (n - 1) % 16, 4)] \o <<>>

\* bitwise exclusive or of two naturals below 2^16
Xor(a, b) ==
    XorTable[16 * (a % 16) + (b % 16) + 1]
  + 16 * XorTable[16 * ((a \div 16) % 16) + ((b \div 16) % 16) + 1]
  + 256 * XorTable[16 * ((a \div 256) % 16) + ((b \div 256) % 16) + 1]
  + 4096 * XorTable[16 * (a \div 4096) + (b \div 4096) + 1]

RECURSIVE CrcBits(_, _)
\* n steps of the bitwise division by the reflected polynomial EDB88320
CrcBits(c, n) ==
  IF n = 0 THEN c
  ELSE LET hi == c.hi \div 2
           lo == (c.lo \div 2) + (c.hi % 2) * 32768
       IN CrcBits(IF c.lo % 2 = 1
                  THEN [hi |-> Xor(hi, 60856), lo |-> Xor(lo, 33568)]
                  ELSE [hi |-> hi, lo |-> lo], n - 1)

\* the table of zlib, entry n at n + 1
CrcTable == [n \in 1..256 |-> CrcBits([hi |-> 0, lo |-> n - 1], 8)] \o <<>>

\* one byte more
CrcByte(c, b) ==
  Then(CrcTable[Xor(c.lo % 256, b) + 1], LAMBDA e :
    [hi |-> Xor(e.hi, c.hi \div 256), lo |-> Xor(e.lo, (c.lo \div 256) + (c.hi % 256) * 256)])

RECURSIVE CrcRun(_, _, _, _)
\* the bytes lo..hi of data
CrcRun(c, data, lo, hi) ==
  IF lo > hi THEN c
  ELSE IF lo = hi THEN CrcByte(c, data[lo])
  ELSE LET mid == (lo + hi) \div 2
       IN Then(CrcRun(c, data, lo, mid), LAMBDA left : CrcRun(left, data, mid + 1, hi))

\* the bytes that stand for data in the run: of a blob, the two bytes of its number
CrcInput(data) ==
  Concat([i \in 1..Len(data) |->
            IF IsBlob(data[i]) THEN <<(data[i] \div 256) % 256, data[i] % 256>>
            ELSE <<data[i]>>])

\* the four bytes of the CRC-32 of data, big-endian
Crc32(data) ==
  Then(CrcInput(data), LAMBDA d :
    Then(CrcRun([hi |-> 65535, lo |-> 65535], d, 1, Len(d)), LAMBDA c :
      Be16(Xor(c.hi, 65535)) \o Be16(Xor(c.lo, 65535))))

(***************************************************************************)
(* Pillow: reading and writing the two containers.  A decoded image is     *)
(* [format, mode, pix, gen, exif, xmp]: pix names the picture, gen counts   *)
(* the lossy encodings it went through, exif is info.get('exif', b''), xmp *)
(* is info.get('xmp', b'').                                                *)
(***************************************************************************)
SOI == <<255, 216>>

EOI == <<255, 217>>

\* the APP0 segment libjpeg writes first
JfifSegment == <<255, 224, 0, 16, 74, 70, 73, 70, 0, 1, 1, 0, 0, 1, 0, 1, 0, 0>>

JpegPicture(pix, gen) == Blob(3, 10 * pix + gen)

PngPicture(pix, enc) == Blob(4, 10 * pix + enc)

PngSignature == <<137, 80, 78, 71, 13, 10, 26, 10>>

GifSignature == <<71, 73, 70, 56, 57, 97>>

IHDR == <<73, 72, 68, 82>>
IDAT == <<73, 68, 65, 84>>
IEND == <<73, 69, 78, 68>>
tEXt == <<116, 69, 88, 116>>
iTXt == <<105, 84, 88, 116>>
PLTE == <<80, 76, 84, 69>>

\* a chunk whose CRC leaves the type out
Chunk_CrcOfData(cid, data) ==
  Then(data, LAMBDA body : Be32(ByteLen(body)) \o cid \o body \o Crc32(body))

\* putchunk(fp, cid, data)
Chunk(cid, data) ==
  Then(data, LAMBDA body : Be32(ByteLen(body)) \o cid \o body \o Crc32(cid \o body))

\* b'http://ns.adobe.com/xap/1.0/\x00'
xmp_header ==
  AsciiBytes(<<"h", "t", "t", "p", ":", "/", "/", "n", "s", ".", "a", "d", "o", "b", "e", ".",
               "c", "o", "m", "/", "x", "a", "p", "/", "1", ".", "0", "/">>) \o <<0>>

xmp_marker == <<255, 225>>

IhdrData(colour_type) == <<0, 0, 0, 1, 0, 0, 0, 1, 8, colour_type, 0, 0, 0>>

RECURSIVE JpegWalk(_, _, _)
\* the marker segments of a JPEG stream from element i on, up to the coded picture
JpegWalk(data, i, info) ==
  IF i > Len(data) THEN Raise("UnidentifiedImageError")
  ELSE IF IsBlob(data[i])
       THEN IF BlobKind(data[i]) = 3
            THEN Ok([format |-> "JPEG", mode |-> "RGB", pix |-> BlobNum(data[i]) \div 10,
                     gen |-> BlobNum(data[i]) % 10, exif |-> info.exif, xmp |-> info.xmp])
            ELSE Raise("UnidentifiedImageError")
  ELSE IF i + 3 > Len(data) \/ data[i] # 255 \/ ~(data[i + 1] \in (224..239) \cup {254})
          \/ IsBlob(data[i + 2]) \/ IsBlob(data[i + 3])
       THEN Raise("UnidentifiedImageError")
  ELSE LET n == data[i + 2] * 256 + data[i + 3]
       IN Then(IF n < 2 THEN -1 ELSE TakeEnd(data, i + 4, n - 2), LAMBDA e :
            IF e = -1 THEN Raise("UnidentifiedImageError")
            ELSE Then(SubSeq(data, i + 4, e), LAMBDA payload :
                   JpegWalk(data, e + 1,
                            IF data[i + 1] = 225 /\ info.exif = <<>>
                               /\ StartsWith(payload, ExifHeader)
                            THEN [info EXCEPT !.exif = payload]
                            ELSE IF data[i + 1] = 225 /\ StartsWith(payload, xmp_header)
                            THEN [info EXCEPT
                                    !.xmp = SubSeq(payload, Len(xmp_header) + 1, Len(payload))]
                            ELSE info)))

ModeOfColourType(ct) == CASE ct = 2 -> "RGB" [] ct = 6 -> "RGBA" [] ct = 3 -> "P" [] OTHER -> "L"

ColourTypeOfMode(mode) == CASE mode = "RGB" -> 2 [] mode = "RGBA" -> 6 [] mode = "P" -> 3 [] OTHER -> 0

RECURSIVE PngWalk(_, _, _)
\* the chunks of a PNG stream from element i on, up to the first IDAT
PngWalk(data, i, mode) ==
  IF i + 7 > Len(data) \/ \E j \in i..(i + 7) : IsBlob(data[j])
  THEN Raise("UnidentifiedImageError")
  ELSE LET n   == U32(data, i - 1)
           cid == SubSeq(data, i + 4, i + 7)
       IN Then(TakeEnd(data, i + 8, n), LAMBDA e :
            IF e = -1 \/ e + 4 > Len(data) THEN Raise("UnidentifiedImageError")
            ELSE IF SubSeq(data, e + 1, e + 4) # Crc32(SubSeq(data, i + 4, e))
                 THEN Raise("UnidentifiedImageError")
            ELSE IF cid = IDAT
                 THEN IF e = i + 8 /\ IsBlob(data[e]) /\ BlobKind(data[e]) = 4
                      THEN Ok([format |-> "PNG", mode |-> mode,
                               pix |-> BlobNum(data[e]) \div 10, gen |-> 0, exif |-> <<>>,
                               xmp |-> <<>>])
                      ELSE Raise("UnidentifiedImageError")
            ELSE PngWalk(data, e + 5, mode))

\* Image.open(BytesIO(data)): the format is found from the bytes, never from a name
ImageOpen(data) ==
  IF StartsWith(data, SOI \o <<255>>) THEN JpegWalk(data, 3, [exif |-> <<>>, xmp |-> <<>>])
  ELSE IF StartsWith(data, PngSignature \o Be32(13) \o IHDR) /\ Len(data) >= 33
            /\ SubSeq(data, 30, 33) = Crc32(SubSeq(data, 13, 29))
       THEN PngWalk(data, 34, ModeOfColourType(data[26]))
  ELSE IF StartsWith(data, GifSignature) /\ Len(data) = 7 /\ IsBlob(data[7])
            /\ BlobKind(data[7]) = 5
       THEN Ok([format |-> "GIF", mode |-> "P", pix |-> BlobNum(data[7]) \div 10, gen |-> 0,
                exif |-> <<>>, xmp |-> <<>>])
  ELSE Raise("UnidentifiedImageError")

\* the largest payload of a marker segment (MAX_BYTES_IN_MARKER)
MaxBytesInMarker == 65533

\* img.save(output, 'JPEG', exif=exif_bytes, quality=95): the picture is encoded anew.
\* The Pillow release is not pinned by the repository: a release that saves info['xmp']
\* writes the packet of the source again after the EXIF segment, any other leaves it out.
SaveJpeg(img, exif_bytes) ==
  IF img.mode \notin {"RGB", "L"} THEN Raise("OSError")
  ELSE IF ByteLen(exif_bytes) > MaxBytesInMarker THEN Raise("ValueError")
  ELSE Ok(SOI \o JfifSegment
          \o <<255, 225>> \o Be16(2 + ByteLen(exif_bytes)) \o exif_bytes
          \o (IF pillow_saves_xmp /\ img.xmp # <<>>
              THEN xmp_marker \o Be16(2 + Len(xmp_header) + ByteLen(img.xmp))
                   \o xmp_header \o img.xmp
              ELSE <<>>)
          \o <<JpegPicture(img.pix, IF img.gen < 9 THEN img.gen + 1 ELSE 9)>>
          \o EOI)

\* img.save(output, 'PNG', pnginfo=pnginfo): header, the chunks of pnginfo in the order
\* they were added, picture, end
SavePng(img, pnginfo) ==
  Ok(PngSignature \o Chunk(IHDR, IhdrData(ColourTypeOfMode(img.mode)))
     \o Concat([i \in 1..Len(pnginfo) |-> Chunk(pnginfo[i].cid, pnginfo[i].data)])
     \o (IF img.mode = "P" THEN Chunk(PLTE, <<Blob(5, 10 * img.pix + 1)>>) ELSE <<>>)
     \o Chunk(IDAT, <<PngPicture(img.pix, 1)>>)
     \o Chunk(IEND, <<>>))

(***************************************************************************)
(* File names: Path(filename).suffix and str.lower()                       *)
(***************************************************************************)
\* the positions of character c in text
Positions(text, c) == {i \in 1..Len(text) : text[i] = c}

Max(S) == CHOOSE x \in S : \A y \in S : y <= x

\* Path(filename).name: what follows the last separator
PathName(filename) ==
  IF Positions(filename, "/") = {} THEN filename
  ELSE SubSeq(filename, Max(Positions(filename, "/")) + 1, Len(filename))

\* Path(filename).suffix: from the last dot of the name on, unless that dot is the
\* first or the last character of the name
Suffix(filename) ==
  LET name == PathName(filename)
      dots == Positions(name, ".")
  IN IF dots = {} \/ Max(dots) = 1 \/ Max(dots) = Len(name) THEN <<>>
     ELSE SubSeq(name, Max(dots), Len(name))

LowerChar(c) ==
  IF c \in AsciiChars /\ Ord(c) >= 65 /\ Ord(c) <= 90 THEN Ascii[Ord(c) + 32 - 31] ELSE c

Lower(text) == [i \in 1..Len(text) |-> LowerChar(text[i])]

ExtJpg == <<".", "j", "p", "g">>
ExtJpeg == <<".", "j", "p", "e", "g">>
ExtPng == <<".", "p", "n", "g">>

(***************************************************************************)
(* The JPEG writer of the in-memory server.                                *)
(***************************************************************************)
\* b'ASCII\x00\x00\x00'
UserCommentPrefix == <<65, 83, 67, 73, 73, 0, 0, 0>>

\* the first exception of a sequence of results, or Ok of nothing
FirstError(results) ==
  IF \E i \in 1..Len(results) : ~results[i].ok
  THEN Raise(results[CHOOSE i \in 1..Len(results) :
                       ~results[i].ok /\ \A j \in 1..(i - 1) : results[j].ok].err)
  ELSE Ok(<<>>)

\* the EXIF dictionary with the four tags set: Ok(exif_dict) or the exception of an encode
SetExifFields(img, metadata) ==
  Then(piexif_load(img.exif), LAMBDA loaded :
  Then(IF loaded.ok THEN loaded.val ELSE EmptyExif, LAMBDA exif_dict :
  Then(<< EncodeValue(Get(metadata, "exif_artist", GroundSwell)),
          EncodeValue(Get(metadata, "exif_copyright", <<>>)),
          EncodeValue(Get(metadata, "exif_description", <<>>)),
          EncodeValue(Get(metadata, "exif_user_comment", <<>>)) >>, LAMBDA encoded :
  Then(FirstError(encoded), LAMBDA failed :
    IF ~failed.ok THEN failed
    ELSE Ok([exif_dict EXCEPT
               !.zeroth = SetTag(SetTag(SetTag(exif_dict.zeroth, TagArtist, encoded[1].val),
                                        TagCopyright, encoded[2].val),
                                 TagImageDescription, encoded[3].val),
               !.exif   = SetTag(exif_dict.exif, TagUserComment,
                                 UserCommentPrefix \o encoded[4].val)])))))

\* the XMP segment for a packet: Ok(segment), or the exception of encode or to_bytes
XmpSegment(xmp_data) ==
  Then(EncodeUtf8(xmp_data), LAMBDA xmp_bytes :
    IF ~xmp_bytes.ok THEN xmp_bytes
    ELSE LET segment_length == 2 + Len(xmp_header) + ByteLen(xmp_bytes.val)
         IN Then(ToBytes2(segment_length), LAMBDA length_bytes :
              IF ~length_bytes.ok THEN length_bytes
              ELSE Ok(xmp_marker \o length_bytes.val \o xmp_header \o xmp_bytes.val)))

\* the segment put over the two bytes that follow the signature
Splice_Overwriting(data, xmp_segment) ==
  SubSeq(data, 1, IF Len(data) < 2 THEN Len(data) ELSE 2) \o xmp_segment
  \o SubSeq(data, 5, Len(data))

\* the segment put behind the stream
Splice_AtEnd(data, xmp_segment) == data \o xmp_segment

\* data[:2] + xmp_segment + data[2:]
Splice(data, xmp_segment) ==
  SubSeq(data, 1, IF Len(data) < 2 THEN Len(data) ELSE 2) \o xmp_segment
  \o SubSeq(data, 3, Len(data))

process_jpeg_metadata(image_data, metadata) ==
  Then(ImageOpen(image_data), LAMBDA opened :
    IF ~opened.ok THEN opened ELSE
  Then(SetExifFields(opened.val, metadata), LAMBDA exif_dict :
    IF ~exif_dict.ok THEN exif_dict ELSE
  Then(SaveJpeg(opened.val, piexif_dump(exif_dict.val)), LAMBDA jpeg_data :
    IF ~jpeg_data.ok THEN jpeg_data ELSE
  Then(create_xmp_packet("api", metadata), LAMBDA xmp_data :
    IF ~xmp_data.ok THEN xmp_data ELSE
  Then(XmpSegment(xmp_data.val), LAMBDA xmp_segment :
    IF ~xmp_segment.ok THEN xmp_segment
    ELSE Ok(Splice(jpeg_data.val, xmp_segment.val)))))))

(***************************************************************************)
(* The PNG writer.                                                         *)
(***************************************************************************)
\* PngInfo.add_text(key, value): a tEXt chunk when the value is Latin-1, an iTXt chunk
\* otherwise; Ok(chunk) or the exception raised
\* add_text that writes every value into a tEXt chunk, as UTF-8
add_text_AlwaysText(key, value) ==
  IF value.t # "str" THEN Raise("AttributeError")
  ELSE Then(EncodeUtf8(value.s), LAMBDA u :
         IF ~u.ok THEN u ELSE Ok([cid |-> tEXt, data |-> AsciiBytes(key) \o <<0>> \o u.val]))

add_text(key, value) ==
  IF value.t # "str" THEN Raise("AttributeError")
  ELSE IF IsLatin1(value.s)
       THEN Ok([cid |-> tEXt, data |-> AsciiBytes(key) \o <<0>> \o Latin1(value.s)])
  ELSE Then(EncodeUtf8(value.s), LAMBDA u :
         IF ~u.ok THEN u
         ELSE Ok([cid |-> iTXt, data |-> AsciiBytes(key) \o <<0, 0, 0, 0, 0>> \o u.val]))

\* the keywords of the text chunks, in the order of the calls
TextKeys ==
  << <<"T", "i", "t", "l", "e">>,
     <<"D", "e", "s", "c", "r", "i", "p", "t", "i", "o", "n">>,
     <<"A", "u", "t", "h", "o", "r">>,
     <<"C", "o", "p", "y", "r", "i", "g", "h", "t">>,
     <<"C", "o", "m", "m", "e", "n", "t">>,
     <<"K", "e", "y", "w", "o", "r", "d", "s">>,
     <<"H", "e", "a", "d", "l", "i", "n", "e">>,
     <<"C", "r", "e", "d", "i", "t">>,
     <<"S", "o", "u", "r", "c", "e">>,
     <<"C", "r", "e", "a", "t", "i", "o", "n", " ", "T", "i", "m", "e">> >>

KeyXmp == <<"X", "M", "L", ":", "c", "o", "m", ".", "a", "d", "o", "b", "e", ".", "x", "m", "p">>

\* the chunks added to pnginfo, in order: Ok(chunks) or the first exception
PngInfo(s, metadata) ==
  LET fields ==
        << <<TextKeys[1], Get(metadata, "xmp_title", <<>>)>>,
           <<TextKeys[2], Get(metadata, "xmp_description", <<>>)>>,
           <<TextKeys[3], Get(metadata, "exif_artist", GroundSwell)>>,
           <<TextKeys[4], Get(metadata, "exif_copyright", <<>>)>>,
           <<TextKeys[5], Get(metadata, "exif_user_comment", <<>>)>>,
           <<TextKeys[6], Get(metadata, "iptc_keywords", <<>>)>>,
           <<TextKeys[7], Get(metadata, "iptc_headline", <<>>)>>,
           <<TextKeys[8], Get(metadata, "iptc_credit", GroundSwell)>>,
           <<TextKeys[9], Get(metadata, "xmp_source", GroundSwell)>>,
           <<TextKeys[10], Get(metadata, "exif_create_date", <<>>)>> >>
  IN Then(create_xmp_packet(s, metadata), LAMBDA xmp_data :
     Then([i \in 1..11 |-> IF i <= 10 THEN add_text(fields[i][1], fields[i][2])
                           ELSE IF xmp_data.ok THEN add_text(KeyXmp, JStr(xmp_data.val))
                           ELSE xmp_data] \o <<>>, LAMBDA texts :
     Then(FirstError(SubSeq(texts, 1, 10) \o <<xmp_data, texts[11]>>), LAMBDA failed :
       IF ~failed.ok THEN failed ELSE Ok([i \in 1..11 |-> texts[i].val]))))

process_png_metadata(image_data, metadata) ==
  Then(ImageOpen(image_data), LAMBDA opened :
    IF ~opened.ok THEN opened ELSE
  Then(PngInfo("api", metadata), LAMBDA pnginfo :
    IF ~pnginfo.ok THEN pnginfo ELSE SavePng(opened.val, pnginfo.val)))

\* a dispatcher that goes by the signature of the bytes
process_image_metadata_BySignature(image_data, filename, metadata) ==
  IF StartsWith(image_data, SOI) THEN process_jpeg_metadata(image_data, metadata)
  ELSE IF StartsWith(image_data, PngSignature) THEN process_png_metadata(image_data, metadata)
  ELSE Ok(image_data)

\* a dispatcher that hands a file with any other extension to the JPEG writer
process_image_metadata_AllJpeg(image_data, filename, metadata) ==
  Then(Lower(Suffix(filename)), LAMBDA ext :
    IF ext = ExtPng THEN process_png_metadata(image_data, metadata)
    ELSE process_jpeg_metadata(image_data, metadata))

\* process_image_metadata(image_data, filename, metadata)
process_image_metadata(image_data, filename, metadata) ==
  Then(Lower(Suffix(filename)), LAMBDA ext :
    IF ext \in {ExtJpg, ExtJpeg} THEN process_jpeg_metadata(image_data, metadata)
    ELSE IF ext = ExtPng THEN process_png_metadata(image_data, metadata)
    ELSE Ok(image_data))

(***************************************************************************)
(* The writers of the file-based server.  A file is [exists, data]; a      *)
(* writer gives [ret, err, xmp, file]: its return value, the exception it  *)
(* caught and printed ("" when none), what embed_xmp_in_jpeg returned      *)
(* ("none" when it was not called) and the output file afterwards.         *)
(***************************************************************************)
NoFile == [exists |-> FALSE, data |-> <<>>]

File(data) == [exists |-> TRUE, data |-> data]

\* the output file after img.save raised: Pillow opened it for writing, and removes
\* it again only if it created it
AfterFailedSave(prev) == IF prev.exists THEN File(<<>>) ELSE NoFile

\* embed_xmp_in_jpeg(file_path, xmp_data) on a file holding data: [ret, file]
embed_xmp_in_jpeg(data, xmp_data) ==
  IF ~StartsWith(data, SOI) THEN [ret |-> FALSE, file |-> File(data)]
  ELSE Then(XmpSegment(xmp_data), LAMBDA xmp_segment :
         IF ~xmp_segment.ok THEN [ret |-> FALSE, file |-> File(data)]
         ELSE [ret |-> TRUE, file |-> File(Splice(data, xmp_segment.val))])

WriterFailed(err, file) == [ret |-> FALSE, err |-> err, xmp |-> "none", file |-> file]

write_metadata_to_jpeg(data, prev, metadata) ==
  Then(ImageOpen(data), LAMBDA opened :
    IF ~opened.ok THEN WriterFailed(opened.err, prev) ELSE
  Then(SetExifFields(opened.val, metadata), LAMBDA exif_dict :
    IF ~exif_dict.ok THEN WriterFailed(exif_dict.err, prev) ELSE
  Then(create_xmp_packet("app", metadata), LAMBDA xmp_data :
    IF ~xmp_data.ok THEN WriterFailed(xmp_data.err, prev) ELSE
  Then(SaveJpeg(opened.val, piexif_dump(exif_dict.val)), LAMBDA saved :
    IF ~saved.ok THEN WriterFailed(saved.err, AfterFailedSave(prev)) ELSE
  Then(embed_xmp_in_jpeg(saved.val, xmp_data.val), LAMBDA embedded :
    [ret |-> TRUE, err |-> "", xmp |-> IF embedded.ret THEN "True" ELSE "False",
     file |-> embedded.file])))))

write_metadata_to_png(data, prev, metadata) ==
  Then(ImageOpen(data), LAMBDA opened :
    IF ~opened.ok THEN WriterFailed(opened.err, prev) ELSE
  Then(PngInfo("app", metadata), LAMBDA pnginfo :
    IF ~pnginfo.ok THEN WriterFailed(pnginfo.err, prev)
    ELSE [ret |-> TRUE, err |-> "", xmp |-> "none",
          file |-> File(SavePng(opened.val, pnginfo.val).val)]))

\* write_metadata_to_image(file_path, output_path, metadata), file_path holding data
\* and output_path holding prev; shutil.copy2 of a file onto itself raises
write_metadata_to_image(file_path, output_path, data, prev, metadata) ==
  Then(Lower(Suffix(file_path.name)), LAMBDA ext :
    IF ext \in {ExtJpg, ExtJpeg} THEN write_metadata_to_jpeg(data, prev, metadata)
    ELSE IF ext = ExtPng THEN write_metadata_to_png(data, prev, metadata)
    ELSE IF file_path = output_path
         THEN [ret |-> FALSE, err |-> "SameFileError", xmp |-> "none", file |-> prev]
    ELSE [ret |-> FALSE, err |-> "", xmp |-> "none", file |-> File(data)])

(***************************************************************************)
(* The save handlers: file names.                                          *)
(***************************************************************************)
Put(f, k, v) == [x \in DOMAIN f \cup {k} |-> IF x = k THEN v ELSE f[x]]

Remove(f, k) == [x \in DOMAIN f \ {k} |-> f[x]]

\* c.isalnum()
IsAlnum(c) ==
  \/ c \in AsciiChars /\ (\/ Ord(c) \in 48..57 \/ Ord(c) \in 65..90 \/ Ord(c) \in 97..122)
  \/ c \in {EAcute, LongRun}

Xs(n) == [i \in 1..n |-> "x"]

Min(S) == CHOOSE x \in S : \A y \in S : x <= y

\* text[:n]
Take(text, n) ==
  LET runs == {i \in Positions(text, LongRun) : i <= n}
  IN IF runs = {} THEN SubSeq(text, 1, IF Len(text) < n THEN Len(text) ELSE n)
     ELSE SubSeq(text, 1, Min(runs) - 1) \o Xs(n - Min(runs) + 1)

Image == <<"i", "m", "a", "g", "e">>

\* "".join(c if c.isalnum() or c in ' -_' else '' for c in title).replace(' ', '_')[:50]
\* of title = metadata.get('xmp_title', metadata.get('iptc_object_name', 'image'));
\* a title that cannot be iterated raises TypeError
SafeTitle(metadata) ==
  LET title == IF "xmp_title" \in DOMAIN metadata THEN metadata["xmp_title"]
               ELSE Get(metadata, "iptc_object_name", Image)
  IN IF title.t \in {"null", "num"} THEN Raise("TypeError")
     ELSE Then(SelectSeq(title.s, LAMBDA c : IsAlnum(c) \/ c \in {" ", "-", "_"}), LAMBDA kept :
            Ok(Take([i \in 1..Len(kept) |-> IF kept[i] = " " THEN "_" ELSE kept[i]], 50)))

Original == <<"_", "o", "r", "i", "g", "i", "n", "a", "l">>

Groundswell == <<"_", "g", "r", "o", "u", "n", "d", "s", "w", "e", "l", "l">>

ImageJpg == <<"i", "m", "a", "g", "e", ".", "j", "p", "g">>

RECURSIVE GlobMatch(_, _)
\* fnmatch of a name against a pattern with the wildcards * and ?
GlobMatch(pattern, name) ==
  IF pattern = <<>> THEN name = <<>>
  ELSE IF Head(pattern) = "*"
       THEN GlobMatch(Tail(pattern), name) \/ (name # <<>> /\ GlobMatch(pattern, Tail(name)))
  ELSE /\ name # <<>>
       /\ Head(pattern) = "?" \/ Head(pattern) = Head(name)
       /\ GlobMatch(Tail(pattern), Tail(name))

\* "../uploads/" and "../processed/": the way from one directory of the server to the other
UploadsPrefix == <<".", ".", "/", "u", "p", "l", "o", "a", "d", "s", "/">>

ProcessedPrefix == <<".", ".", "/", "p", "r", "o", "c", "e", "s", "s", "e", "d", "/">>

RECURSIVE Locate(_, _)
\* the file a relative path names when it is joined to a directory of the server:
\* [dir, name]
Locate(dir, rel) ==
  IF StartsWith(rel, UploadsPrefix)
  THEN Locate("uploads", SubSeq(rel, Len(UploadsPrefix) + 1, Len(rel)))
  ELSE IF StartsWith(rel, ProcessedPrefix)
       THEN Locate("processed", SubSeq(rel, Len(ProcessedPrefix) + 1, Len(rel)))
  ELSE [dir |-> dir, name |-> rel]

\* UPLOAD_DIR.glob(f"{file_id}_original.*"): the paths found, each [dir, name]
upload_files(uploads, processed, file_id) ==
  LET pattern == Locate("uploads", file_id \o Original \o <<".", "*">>)
      dir     == IF pattern.dir = "uploads" THEN uploads ELSE processed
  IN {[dir |-> pattern.dir, name |-> name] :
        name \in {n \in DOMAIN dir : GlobMatch(pattern.name, n)}}

(***************************************************************************)
(* The answer to the last request.  For a save that reached the writer,    *)
(* dispatched is TRUE, written is the stream or file the writer left and   *)
(* werr the exception it raised or caught ("" when there was none).        *)
(***************************************************************************)
NoRequest ==
  [op |-> "none", status |-> 0, file_id |-> <<>>, metadata |-> EmptyFn, filename |-> <<>>,
   image_data |-> <<>>, success |-> FALSE, metadata_written |-> "absent", out_name |-> <<>>,
   out |-> NoFile, err |-> "", xmp |-> "none", packet |-> Raise(""),
   dispatched |-> FALSE, written |-> NoFile, werr |-> "",
   response |-> <<>>, analysis |-> Raise("")]

Answer(op, status, file_id) == [NoRequest EXCEPT !.op = op, !.status = status, !.file_id = file_id]

BoolText(b) == IF b THEN "true" ELSE "false"

(***************************************************************************)
(* analyze_image_with_claude, from the text of the answer on.  The answer  *)
(* is text over "{", "}", Key (a member name with its colon), "1" (a       *)
(* number), "x" (prose) and Deep (a run of "[" longer than the recursion   *)
(* limit of the interpreter).                                              *)
(***************************************************************************)
Key == "K"

Deep == "Deep"

RECURSIVE ScanOnce(_, _)
\* the scanner of json.loads on the value that starts at element i: [next, err], next
\* the element after the value, or -1 with err "" for a JSONDecodeError and with the
\* name of any other exception
ScanOnce(s, i) ==
  IF i > Len(s) THEN [next |-> -1, err |-> ""]
  ELSE IF s[i] = "1" THEN [next |-> i + 1, err |-> ""]
  ELSE IF s[i] = Deep THEN [next |-> -1, err |-> "RecursionError"]
  ELSE IF s[i] # "{" \/ i + 1 > Len(s) THEN [next |-> -1, err |-> ""]
  ELSE IF s[i + 1] = "}" THEN [next |-> i + 2, err |-> ""]
  ELSE IF s[i + 1] # Key THEN [next |-> -1, err |-> ""]
  ELSE Then(ScanOnce(s, i + 2), LAMBDA value :
         IF value.next = -1 THEN value
         ELSE IF value.next <= Len(s) /\ s[value.next] = "}"
              THEN [next |-> value.next + 1, err |-> ""]
         ELSE [next |-> -1, err |-> ""])

\* json.loads(json_str): Ok(the object, here the members it has at the top) or the
\* exception
json_loads(json_str) ==
  Then(ScanOnce(json_str, 1), LAMBDA value :
    IF value.err # "" THEN Raise(value.err)
    ELSE IF value.next # Len(json_str) + 1 \/ json_str[1] # "{" THEN Raise("JSONDecodeError")
    ELSE Ok([kind |-> "parsed", members |-> IF json_str[2] = Key THEN 1 ELSE 0]))

\* str.find and str.rfind, counting from 0, -1 when the character is missing
Find(text, c) == IF Positions(text, c) = {} THEN -1 ELSE Min(Positions(text, c)) - 1

RFind(text, c) == IF Positions(text, c) = {} THEN -1 ELSE Max(Positions(text, c)) - 1

UpperChar(c) ==
  IF c \in AsciiChars /\ Ord(c) >= 97 /\ Ord(c) <= 122 THEN Ascii[Ord(c) - 32 - 31] ELSE c

IsCased(c) == c \in AsciiChars /\ (Ord(c) \in 65..90 \/ Ord(c) \in 97..122)

\* str.title() of a name in ASCII: a letter is upper case when no letter precedes it,
\* lower case otherwise
Title(text) ==
  [i \in 1..Len(text) |->
     IF i > 1 /\ IsCased(text[i - 1]) THEN LowerChar(text[i]) ELSE UpperChar(text[i])]

\* str.replace(old, new) for single characters
Replace(text, old, new) == [i \in 1..Len(text) |-> IF text[i] = old THEN new ELSE text[i]]

\* Path(filename).stem
Stem(filename) ==
  SubSeq(PathName(filename), 1, Len(PathName(filename)) - Len(Suffix(filename)))

\* the mapping made from the name of the file; today is datetime.now() as %Y-%m-%d
Fallback(filename, today) ==
  LET clean_name == Title(Replace(Replace(Stem(filename), "-", " "), "_", " "))
  IN [kind |-> "fallback",
      title |-> clean_name,
      headline |-> <<"Learn about ">> \o clean_name \o <<" with GroundSwell", ServiceMark>>,
      description |-> clean_name \o <<" is a key concept in the GroundSwell", ServiceMark,
                                      " Business Ownership Platform.">>,
      keywords |-> <<clean_name, GroundSwell, <<"business">>,
                     <<"organizational development">> >>,
      category |-> BusinessOwnershipPlatform,
      supplemental_category |-> <<"General">>,
      create_date |-> today]

\* analyze_image_with_claude once message.content[0].text is response_text: Ok(the
\* mapping returned) or the exception that leaves the function
analyze_image_with_claude(response_text, filename, today) ==
  LET start == Find(response_text, "{")
      end   == RFind(response_text, "}") + 1
  IN Then(IF start # -1 /\ end > start
          THEN json_loads(SubSeq(response_text, start + 1, end))
          ELSE Raise("JSONDecodeError"), LAMBDA loaded :
       IF loaded.ok THEN loaded
       ELSE IF loaded.err = "JSONDecodeError" THEN Ok(Fallback(filename, today))
       ELSE loaded)

(***************************************************************************)
(* The requests.  An upload is [filename, content, allowed]: the name and  *)
(* bytes the client sent and whether the content type it declared is one   *)
(* of the four allowed; analysis is what the description generator did,    *)
(* "ok" or "raises".                                                       *)
(***************************************************************************)
\* POST /upload of the in-memory server
UploadApi(file_id, up, analysis) ==
  /\ srv = "api"
  /\ UNCHANGED <<srv, pillow_saves_xmp, proc, upload_dir, processed_dir>>
  /\ IF ~up.allowed
     THEN /\ last' = Answer("upload", 400, <<>>)
          /\ UNCHANGED file_storage
     ELSE LET original_filename == IF up.filename = <<>> THEN ImageJpg ELSE up.filename
              stored == Put(file_storage, file_id,
                            [data |-> up.content, filename |-> original_filename])
          IN IF analysis = "ok"
             THEN /\ file_storage' = stored
                  /\ last' = [Answer("upload", 200, file_id) EXCEPT
                                !.success = TRUE, !.filename = original_filename,
                                !.image_data = up.content]
             ELSE /\ file_storage' = Remove(stored, file_id)
                  /\ last' = [Answer("upload", 500, file_id) EXCEPT !.err = "Exception"]

\* POST /upload of the file-based server
UploadApp(file_id, up, analysis) ==
  /\ srv = "app"
  /\ UNCHANGED <<srv, pillow_saves_xmp, proc, file_storage, processed_dir>>
  /\ IF ~up.allowed
     THEN /\ last' = Answer("upload", 400, <<>>)
          /\ UNCHANGED upload_dir
     ELSE \E original_filename \in {IF up.filename = <<>> THEN ImageJpg ELSE up.filename} :
          \E ext \in {IF Suffix(original_filename) = <<>> THEN ExtJpg
                      ELSE Suffix(original_filename)} :
          \E upload_path \in {file_id \o Original \o ext} :
          \E stored \in {Put(upload_dir, upload_path, up.content)} :
             IF analysis = "ok"
             THEN /\ upload_dir' = stored
                  /\ last' = [Answer("upload", 200, file_id) EXCEPT
                                !.success = TRUE, !.filename = upload_path,
                                !.image_data = up.content]
             ELSE /\ upload_dir' = Remove(stored, upload_path)
                  /\ last' = [Answer("upload", 500, file_id) EXCEPT !.err = "Exception"]

\* POST /save-metadata of the in-memory server; the response carries the processed
\* bytes (out) in base64
SaveApi(file_id, metadata) ==
  /\ srv = "api"
  /\ UNCHANGED <<srv, pillow_saves_xmp, proc, file_storage, upload_dir, processed_dir>>
  /\ IF file_id \notin DOMAIN file_storage
     THEN last' = [Answer("save", 404, file_id) EXCEPT !.metadata = metadata]
     ELSE \E stored \in {file_storage[file_id]} :
          \E processed \in {process_image_metadata(stored.data, stored.filename, metadata)} :
          \E title \in {SafeTitle(metadata)} :
          \E seen \in {[Answer("save", 500, file_id) EXCEPT
                          !.metadata = metadata, !.filename = stored.filename,
                          !.image_data = stored.data, !.dispatched = TRUE,
                          !.written = IF processed.ok THEN File(processed.val) ELSE NoFile,
                          !.werr = processed.err]} :
            IF ~processed.ok THEN last' = [seen EXCEPT !.err = processed.err]
            ELSE IF ~title.ok THEN last' = [seen EXCEPT !.err = title.err]
            ELSE last' = [seen EXCEPT
                            !.status = 200, !.success = TRUE,
                            !.out_name = title.val \o Groundswell \o Suffix(stored.filename),
                            !.out = File(processed.val)]

\* POST /save-metadata of the file-based server
SaveApp(file_id, metadata) ==
  /\ srv = "app"
  /\ UNCHANGED <<srv, pillow_saves_xmp, proc, file_storage>>
  /\ IF upload_files(upload_dir, processed_dir, file_id) = {}
     THEN /\ last' = [Answer("save", 404, file_id) EXCEPT !.metadata = metadata]
          /\ UNCHANGED <<upload_dir, processed_dir>>
     ELSE \E upload_path \in upload_files(upload_dir, processed_dir, file_id) :
          \E data \in {IF upload_path.dir = "uploads" THEN upload_dir[upload_path.name]
                       ELSE processed_dir[upload_path.name]} :
          \E title \in {SafeTitle(metadata)} :
          \E seen \in {[Answer("save", 500, file_id) EXCEPT
                          !.metadata = metadata, !.filename = upload_path.name,
                          !.image_data = data]} :
            IF ~title.ok
            THEN /\ last' = [seen EXCEPT !.err = title.err]
                 /\ UNCHANGED <<upload_dir, processed_dir>>
            ELSE \E output_filename \in {file_id \o <<"_">> \o title.val
                                          \o Suffix(upload_path.name)} :
                 \E output_path \in {Locate("processed", output_filename)} :
                 \E dir \in {IF output_path.dir = "uploads" THEN upload_dir
                             ELSE processed_dir} :
                 \E prev \in {IF output_path.name \in DOMAIN dir
                              THEN File(dir[output_path.name]) ELSE NoFile} :
                 \E done \in {write_metadata_to_image(upload_path, output_path, data,
                                                      prev, metadata)} :
                 \E left \in {IF done.file.exists
                              THEN Put(dir, output_path.name, done.file.data)
                              ELSE Remove(dir, output_path.name)} :
                   /\ upload_dir' = IF output_path.dir = "uploads" THEN left ELSE upload_dir
                   /\ processed_dir' = IF output_path.dir = "uploads" THEN processed_dir
                                       ELSE left
                   /\ IF done.err = "SameFileError"
                      THEN last' = [seen EXCEPT !.err = done.err, !.dispatched = TRUE,
                                                !.written = done.file, !.werr = done.err]
                      ELSE last' = [seen EXCEPT
                                      !.status = 200, !.success = TRUE,
                                      !.metadata_written = BoolText(done.ret),
                                      !.out_name = output_filename, !.out = done.file,
                                      !.err = done.err, !.xmp = done.xmp,
                                      !.dispatched = TRUE, !.written = done.file,
                                      !.werr = done.err]

(***************************************************************************)
(* Saves of the file-based server that run in parallel workers.  Each      *)
(* worker p goes through save_metadata and write_metadata_to_jpeg step by  *)
(* step; proc[p] holds where it is (pc) and its local values.  The workers *)
(* share the two directories.                                              *)
(***************************************************************************)
Procs == {1, 2}

Idle ==
  [pc |-> "idle", metadata |-> EmptyFn, upload |-> <<>>, output |-> <<>>, xmp_data |-> <<>>,
   encoded |-> Raise(""), new_data |-> <<>>, ret |-> FALSE, xmp |-> "none", result |-> NoFile]

\* the file a worker leaves at a path of PROCESSED_DIR when it returns
Left(dir, name) == IF name \in DOMAIN dir THEN File(dir[name]) ELSE NoFile

\* save_metadata up to img.save: the upload is found and opened, the EXIF block and the
\* packet are built
ParOpen(p, file_id, metadata) ==
  /\ srv = "app"
  /\ proc[p].pc = "idle"
  /\ \E upload_path \in upload_files(upload_dir, processed_dir, file_id) :
     \E title \in {SafeTitle(metadata)} :
       /\ upload_path.dir = "uploads"
       /\ Lower(Suffix(upload_path.name)) \in {ExtJpg, ExtJpeg}
       /\ title.ok
       /\ \E output_path \in {Locate("processed", file_id \o <<"_">> \o title.val
                                                  \o Suffix(upload_path.name))} :
          \E opened \in {ImageOpen(upload_dir[upload_path.name])} :
          \E exif_dict \in {IF opened.ok THEN SetExifFields(opened.val, metadata)
                            ELSE opened} :
          \E xmp_data \in {IF exif_dict.ok THEN create_xmp_packet("app", metadata)
                           ELSE exif_dict} :
          \E begun \in {[Idle EXCEPT !.metadata = metadata, !.upload = upload_path.name,
                                     !.output = output_path.name]} :
            /\ output_path.dir = "processed"
            /\ proc' = [proc EXCEPT ![p] =
                          IF ~xmp_data.ok
                          THEN [begun EXCEPT !.pc = "done",
                                             !.result = Left(processed_dir, output_path.name)]
                          ELSE [begun EXCEPT
                                  !.pc = "opened", !.xmp_data = xmp_data.val,
                                  !.encoded = SaveJpeg(opened.val,
                                                       piexif_dump(exif_dict.val))]]
  /\ UNCHANGED <<srv, pillow_saves_xmp, file_storage, upload_dir, processed_dir, last>>

\* img.save(output_path, 'JPEG', exif=exif_bytes, quality=95)
ParSave(p) ==
  /\ proc[p].pc = "opened"
  /\ \E me \in {proc[p]} :
       IF me.encoded.ok
       THEN /\ processed_dir' = Put(processed_dir, me.output, me.encoded.val)
            /\ proc' = [proc EXCEPT ![p].pc = "saved"]
       ELSE \E left \in {AfterFailedSave(Left(processed_dir, me.output))} :
            /\ processed_dir' = IF left.exists THEN Put(processed_dir, me.output, left.data)
                                ELSE Remove(processed_dir, me.output)
            /\ proc' = [proc EXCEPT ![p].pc = "done", ![p].result = left]
  /\ UNCHANGED <<srv, pillow_saves_xmp, file_storage, upload_dir, last>>

\* embed_xmp_in_jpeg up to new_data: the file is read and the segment put into what
\* was read
ParRead(p) ==
  /\ proc[p].pc = "saved"
  /\ \E me \in {proc[p]} :
     \E file \in {Left(processed_dir, me.output)} :
     \E xmp_segment \in {XmpSegment(me.xmp_data)} :
       proc' = [proc EXCEPT ![p] =
                  IF ~file.exists \/ ~StartsWith(file.data, SOI) \/ ~xmp_segment.ok
                  THEN [me EXCEPT !.pc = "done", !.ret = TRUE, !.xmp = "False",
                                  !.result = file]
                  ELSE [me EXCEPT !.pc = "read",
                                  !.new_data = Splice(file.data, xmp_segment.val)]]
  /\ UNCHANGED <<srv, pillow_saves_xmp, file_storage, upload_dir, processed_dir, last>>

\* embed_xmp_in_jpeg: new_data is written back, and the worker returns
ParWrite(p) ==
  /\ proc[p].pc = "read"
  /\ processed_dir' = Put(processed_dir, proc[p].output, proc[p].new_data)
  /\ proc' = [proc EXCEPT ![p].pc = "done", ![p].ret = TRUE, ![p].xmp = "True",
                          ![p].result = File(proc[p].new_data)]
  /\ UNCHANGED <<srv, pillow_saves_xmp, file_storage, upload_dir, last>>

\* create_xmp_packet(metadata) called on its own
BuildXmp(metadata) ==
  /\ last.op = "none"
  /\ last' = [NoRequest EXCEPT !.op = "create_xmp_packet", !.metadata = metadata,
                               !.packet = create_xmp_packet(srv, metadata)]
  /\ UNCHANGED <<srv, pillow_saves_xmp, proc, file_storage, upload_dir, processed_dir>>

\* analyze_image_with_claude called on the answer of the generator
Analyze(response_text, filename) ==
  /\ last.op = "none"
  /\ last' = [NoRequest EXCEPT
                !.op = "analyze", !.filename = filename, !.response = response_text,
                !.analysis = analyze_image_with_claude(response_text, filename, <<"Today">>)]
  /\ UNCHANGED <<srv, pillow_saves_xmp, proc, file_storage, upload_dir, processed_dir>>

(***************************************************************************)
(* The inputs tried.                                                       *)
(***************************************************************************)
\* the picture files a client may send
JpegFile == SOI \o JfifSegment \o <<JpegPicture(1, 0)>> \o EOI

\* a JPEG stream that carries an XMP segment already, as an earlier embed leaves it
JpegXmpFile ==
  SOI \o xmp_marker \o Be16(2 + Len(xmp_header) + 3) \o xmp_header \o <<111, 108, 100>>
  \o JfifSegment \o <<JpegPicture(7, 0)>> \o EOI

\* a JPEG stream that carries an EXIF block of its own (Make, Artist, UserComment)
JpegExifFile ==
  LET exif == piexif_dump([EmptyExif EXCEPT
                             !.zeroth = SetTag(SetTag(EmptyFn, TagMake, <<67>>), TagArtist, <<90>>),
                             !.exif   = SetTag(EmptyFn, TagUserComment,
                                               UserCommentPrefix \o <<107>>)])
  IN SOI \o <<255, 225>> \o Be16(2 + Len(exif)) \o exif \o <<JpegPicture(2, 0)>> \o EOI

\* a thumbnail: start of image, start of scan, the coded picture, end of image
Thumbnail == SOI \o <<255, 218>> \o <<JpegPicture(9, 0)>> \o EOI

\* a JPEG stream whose EXIF block carries Make and a thumbnail
JpegThumbFile ==
  LET exif == piexif_dump([EmptyExif EXCEPT
                             !.zeroth = SetTag(EmptyFn, TagMake, <<67>>),
                             !.exif   = SetTag(EmptyFn, TagUserComment, UserCommentPrefix),
                             !.thumbnail = Thumbnail])
  IN SOI \o <<255, 225>> \o Be16(2 + ByteLen(exif)) \o exif \o <<JpegPicture(6, 0)>> \o EOI

PngFile ==
  PngSignature \o Chunk(IHDR, IhdrData(2)) \o Chunk(IDAT, <<PngPicture(3, 0)>>) \o Chunk(IEND, <<>>)

\* a PNG stream that carries a text chunk of its own (Title: Z)
PngTextFile ==
  PngSignature \o Chunk(IHDR, IhdrData(2))
  \o Chunk(tEXt, AsciiBytes(TextKeys[1]) \o <<0, 90>>)
  \o Chunk(IDAT, <<PngPicture(5, 0)>>) \o Chunk(IEND, <<>>)

\* a PNG stream with an alpha channel, which the JPEG encoder refuses
PngAlphaFile ==
  PngSignature \o Chunk(IHDR, IhdrData(6)) \o Chunk(IDAT, <<PngPicture(4, 0)>>) \o Chunk(IEND, <<>>)

GifFile == GifSignature \o <<Blob(5, 50)>>

\* bytes that are no picture
BadFile == <<110, 111>>

NameJpg == <<"a", ".", "j", "p", "g">>
NameJpegUpper == <<"a", ".", "J", "P", "E", "G">>
NamePng == <<"a", ".", "p", "n", "g">>
NameGif == <<"a", ".", "g", "i", "f">>
NameBare == <<"a">>

Sent(filename, content) == [filename |-> filename, content |-> content, allowed |-> TRUE]

AllUploads ==
  { Sent(NameJpg, JpegFile), Sent(NameJpegUpper, JpegExifFile), Sent(NameJpg, JpegThumbFile),
    Sent(NameJpg, JpegXmpFile), Sent(NamePng, PngFile),
    Sent(NameJpg, PngFile), Sent(NamePng, PngTextFile), Sent(NameJpg, PngAlphaFile), Sent(NameJpg, BadFile),
    Sent(NamePng, BadFile), Sent(NamePng, JpegFile), Sent(NameGif, GifFile),
    Sent(NameGif, BadFile), Sent(NameBare, JpegFile), Sent(<<>>, JpegFile),
    [filename |-> NameJpg, content |-> JpegFile, allowed |-> FALSE] }

SmallUploads == {Sent(NameJpg, JpegFile), Sent(NamePng, PngFile)}

FileIds == {<<"1">>, <<"2">>}

\* what the form of the page sends: every field a string
FormKeys ==
  {"exif_create_date", "exif_artist", "exif_copyright", "exif_description",
   "exif_user_comment", "iptc_object_name", "iptc_headline", "iptc_caption", "iptc_keywords",
   "iptc_date_created", "iptc_byline", "iptc_credit", "iptc_copyright_notice", "iptc_contact",
   "xmp_title", "xmp_label", "xmp_headline", "xmp_description", "xmp_subject",
   "xmp_date_created", "xmp_creator", "xmp_credit", "xmp_rights", "xmp_copyright_status",
   "xmp_source", "xmp_category", "xmp_website", "xmp_phone"}

FormValue(k) ==
  CASE k \in {"exif_create_date", "iptc_date_created", "xmp_date_created"} -> <<"2", "6">>
    [] k \in {"exif_artist", "iptc_byline", "xmp_creator"} -> <<"G">>
    [] k \in {"iptc_credit", "xmp_credit"} -> <<"R">>
    [] k \in {"exif_copyright", "iptc_copyright_notice", "xmp_rights"} -> <<"C">>
    [] k \in {"exif_description", "iptc_caption", "xmp_description"} -> <<"D">>
    [] k \in {"exif_user_comment", "iptc_keywords", "xmp_subject"} -> <<"k", ",", " ", "w">>
    [] k \in {"iptc_object_name", "xmp_title", "xmp_label"} -> <<"T", " ", "1">>
    [] k \in {"iptc_headline", "xmp_headline"} -> <<"H">>
    [] k = "xmp_source" -> <<"S">>
    [] k = "xmp_category" -> <<"B">>
    [] k = "xmp_website" -> <<"W">>
    [] k = "xmp_phone" -> <<"7">>
    [] OTHER -> <<"P">>

Form == [k \in FormKeys |-> JStr(FormValue(k))]

\* the keys the writers read
ReadKeys ==
  {"xmp_title", "xmp_description", "xmp_creator", "xmp_rights", "xmp_subject", "xmp_headline",
   "xmp_credit", "xmp_source", "xmp_date_created", "xmp_category", "xmp_website", "xmp_phone",
   "exif_artist", "exif_copyright", "exif_description", "exif_user_comment", "iptc_keywords",
   "iptc_headline", "iptc_credit", "exif_create_date"}

XmpKeys ==
  {"xmp_title", "xmp_description", "xmp_creator", "xmp_rights", "xmp_subject", "xmp_headline",
   "xmp_credit", "xmp_source", "xmp_date_created", "xmp_category", "xmp_website", "xmp_phone"}

\* values a client may put under a key
OddValues ==
  { JStr(<<>>), JStr(<<LongRun>>), JStr(<<"a", "&", "b">>), JStr(<<EAcute>>),
    JStr(<<ServiceMark>>), JStr(<<Surrogate>>), JNull, JNum, JList }

AllMetadata ==
  {Form, EmptyFn}
  \cup {Put(Form, k, v) : k \in ReadKeys, v \in OddValues}
  \cup {Remove(Form, k) : k \in ReadKeys}

SmallMetadata ==
  {Form, Put(Form, "xmp_title", JStr(Tail(Original)))}

\* the ids a client may name in a save: those the server gave out, one that leads
\* from the directory of the outputs to an upload, and one that is a glob pattern
SaveIds == FileIds \cup {UploadsPrefix \o <<"1">>, <<"*">>}

Alphabet == {"a", "b", ",", " ", "&", "<", ">", "\"", "'"}

\* the texts over the alphabet of length n at most
Texts(n) == UNION {[1..k -> Alphabet] : k \in 0..n}

XmpInputs ==
  {EmptyFn}
  \cup {Put(Form, "xmp_subject", JStr(t)) : t \in Texts(MaxLen)}
  \cup {Put(Form, k, JStr(t)) : k \in XmpKeys \ {"xmp_subject"}, t \in Texts(MaxFieldLen)}
  \cup {Put(Form, k, v) : k \in XmpKeys, v \in {JNull, JNum, JList}}
  \cup {Remove(Form, k) : k \in XmpKeys}

(***************************************************************************)
(* The specifications.                                                     *)
(***************************************************************************)
Init ==
  /\ srv \in {"api", "app"}
  /\ pillow_saves_xmp \in BOOLEAN
  /\ file_storage = EmptyFn
  /\ upload_dir = EmptyFn
  /\ processed_dir = EmptyFn
  /\ last = NoRequest
  /\ proc = [p \in Procs |-> Idle]

\* the files a server keeps at most
MaxFiles == 2

Files == Cardinality(DOMAIN file_storage) + Cardinality(DOMAIN upload_dir)
         + Cardinality(DOMAIN processed_dir)

\* the lossy encodings a stored upload went through at most
MaxGeneration == 1

\* the lossy encodings the picture of a stream went through
Generation(data) ==
  Max({0} \cup {BlobNum(data[i]) % 10 :
                  i \in {j \in 1..Len(data) : IsBlob(data[j]) /\ BlobKind(data[j]) = 3}})

\* an id under which an upload is stored; Spec follows the uploads whose id,
\* str(uuid.uuid4())[:8], is one that is not, and SpecStore every upload
Stored(file_id) ==
  IF srv = "api" THEN file_id \in DOMAIN file_storage
  ELSE \E name \in DOMAIN upload_dir : GlobMatch(file_id \o Original \o <<".", "*">>, name)

Next ==
  \/ \E file_id \in FileIds, up \in SmallUploads, analysis \in {"ok", "raises"} :
       ~Stored(file_id) /\ UploadApi(file_id, up, analysis) /\ Files' <= MaxFiles
  \/ \E file_id \in FileIds, up \in SmallUploads, analysis \in {"ok", "raises"} :
       ~Stored(file_id) /\ UploadApp(file_id, up, analysis) /\ Files' <= MaxFiles
  \/ \E file_id \in SaveIds, metadata \in SmallMetadata : SaveApi(file_id, metadata)
  \/ \E file_id \in SaveIds, metadata \in SmallMetadata :
       /\ SaveApp(file_id, metadata)
       /\ Files' <= MaxFiles
       /\ \A name \in DOMAIN upload_dir' : Generation(upload_dir'[name]) <= MaxGeneration

\* the servers, with any number of uploads and saves
Spec == Init /\ [][Next]_vars

\* the uploads sent to a server that draws the id of an upload again
StoreUploads ==
  SmallUploads \cup {[filename |-> NameJpg, content |-> JpegFile, allowed |-> FALSE]}

NextStore ==
  \/ \E file_id \in FileIds, up \in StoreUploads, analysis \in {"ok", "raises"} :
       UploadApi(file_id, up, analysis) /\ Files' <= MaxFiles
  \/ \E file_id \in FileIds, up \in StoreUploads, analysis \in {"ok", "raises"} :
       UploadApp(file_id, up, analysis) /\ Files' <= MaxFiles
  \/ \E file_id \in FileIds : SaveApi(file_id, Form)
  \/ \E file_id \in FileIds : SaveApp(file_id, Form) /\ Files' <= MaxFiles

\* the servers, with uploads under any id, one in use included, and saves of the
\* ids given out
SpecStore == Init /\ [][NextStore]_vars

Fresh == file_storage = EmptyFn /\ upload_dir = EmptyFn /\ last.op = "none"

Uploaded == last.op = "upload" /\ last.status = 200

\* the uploads tried with a codec: one that saves the packet of the source differs
\* from one that leaves it out only on a source that carries a packet
UploadsTried == IF pillow_saves_xmp THEN {Sent(NameJpg, JpegXmpFile)} ELSE AllUploads

NextSave ==
  \/ Fresh /\ \E up \in UploadsTried, analysis \in {"ok", "raises"} :
                UploadApi(<<"1">>, up, analysis)
  \/ Fresh /\ \E up \in UploadsTried, analysis \in {"ok", "raises"} :
                UploadApp(<<"1">>, up, analysis)
  \/ Uploaded /\ \E file_id \in FileIds, metadata \in AllMetadata : SaveApi(file_id, metadata)
  \/ Uploaded /\ \E file_id \in FileIds, metadata \in AllMetadata : SaveApp(file_id, metadata)

\* one upload and one save of it, with every file and every record
SpecSave == Init /\ [][NextSave]_vars

\* the records sent where the file decides: that of the form, one with another title
\* and the empty one
WriteMetadata == SmallMetadata \cup {EmptyFn}

NextWrite ==
  \/ Fresh /\ \E up \in UploadsTried, analysis \in {"ok", "raises"} :
                UploadApi(<<"1">>, up, analysis)
  \/ Fresh /\ \E up \in UploadsTried, analysis \in {"ok", "raises"} :
                UploadApp(<<"1">>, up, analysis)
  \/ Uploaded /\ \E file_id \in FileIds, metadata \in WriteMetadata :
                   SaveApi(file_id, metadata)
  \/ Uploaded /\ \E file_id \in FileIds, metadata \in WriteMetadata :
                   SaveApp(file_id, metadata)

\* one upload and one save of it, with every file and a few records
SpecWrite == Init /\ [][NextWrite]_vars

\* the records two parallel saves send: the same record, one with another
\* description under the same title, one with another title
ParMetadata ==
  {Form, Put(Form, "xmp_description", JStr(<<"E">>)), Put(Form, "xmp_title", JStr(<<"U">>))}

NextPar ==
  \/ \E analysis \in {"ok", "raises"} :
       Fresh /\ UploadApp(<<"1">>, Sent(NameJpg, JpegFile), analysis)
  \/ \E p \in Procs, metadata \in ParMetadata : ParOpen(p, <<"1">>, metadata)
  \/ \E p \in Procs : ParSave(p)
  \/ \E p \in Procs : ParRead(p)
  \/ \E p \in Procs : ParWrite(p)

\* one upload and two saves of it in parallel workers of the file-based server
SpecPar == Init /\ [][NextPar]_vars

\* longest answer of the generator tried
MaxResponse == 4

RECURSIVE TextsUpTo(_, _)
\* the texts over an alphabet up to a length
TextsUpTo(chars, n) ==
  IF n = 0 THEN {<<>>}
  ELSE LET shorter == TextsUpTo(chars, n - 1)
       IN shorter \cup {Append(t, c) : t \in {u \in shorter : Len(u) = n - 1}, c \in chars}

Responses == TextsUpTo({"{", "}", Key, "1", "x", Deep}, MaxResponse)

NameWords == <<"m", "y", "-", "b", "_", "C", "d", ".", "p", "n", "g">>

NextAnalyze ==
  /\ last.op = "none"
  /\ \E response_text \in Responses, filename \in {NameJpg, NameWords} :
       Analyze(response_text, filename)

\* the analysis on its own, with every answer
SpecAnalyze == Init /\ [][NextAnalyze]_vars

NextXmp ==
  /\ last.op = "none"
  /\ ~pillow_saves_xmp
  /\ \E metadata \in XmpInputs : BuildXmp(metadata)

\* the packet builder on its own, with every text; it does not use the codec
SpecXmp == Init /\ [][NextXmp]_vars

(***************************************************************************)
(* The properties of a save.                                               *)
(***************************************************************************)
\* the last request was a save that reached the writer
Dispatched == last.op = "save" /\ last.dispatched

SavedExt == Lower(Suffix(last.filename))

JpegSave == Dispatched /\ SavedExt \in {ExtJpg, ExtJpeg}

PassThroughSave == Dispatched /\ SavedExt \notin {ExtJpg, ExtJpeg, ExtPng}

\* the writer reported that it wrote the metadata
WriterSucceeded ==
  /\ last.werr = ""
  /\ last.written.exists
  /\ srv = "app" => last.metadata_written = "true"

\* the UTF-8 bytes of the packet of the saved record, <<>> when there are none
PacketBytes ==
  Then(create_xmp_packet(srv, last.metadata), LAMBDA xmp_data :
    IF ~xmp_data.ok THEN <<>>
    ELSE Then(EncodeUtf8(xmp_data.val), LAMBDA xmp_bytes :
           IF xmp_bytes.ok THEN xmp_bytes.val ELSE <<>>))

\* the segment length computed for the saved record
SegmentLength == 2 + Len(xmp_header) + ByteLen(PacketBytes)

C2_JpegSegmentFramed ==
  (JpegSave /\ WriterSucceeded) =>
    /\ Len(last.written.data) >= 6
    /\ SubSeq(last.written.data, 1, 4) = SOI \o xmp_marker
    /\ 256 * last.written.data[5] + last.written.data[6] = SegmentLength

\* C3: a JPEG save whose segment length is above 65535 is not reported as written
C3_OverlongSegmentRefused ==
  (JpegSave /\ PacketBytes # <<>> /\ SegmentLength > 65535) => ~WriterSucceeded

\* C4: a JPEG save of bytes that do not begin FF D8 fails and leaves no output
C4_SignatureChecked ==
  (JpegSave /\ ~StartsWith(last.image_data, SOI)) =>
    (last.werr # "" /\ ~last.written.exists)

\* C5: a save whose writer failed is not answered with success
C5_FailureSurfaced ==
  (Dispatched /\ last.werr # "") => ~(last.status = 200 /\ last.success)

\* C6: a successful save says that no metadata was written exactly when the
\* extension of the file is none of .jpg, .jpeg and .png
C6_PassThroughFlagged ==
  (Dispatched /\ last.status = 200) =>
    (last.metadata_written = "false" <=> PassThroughSave)

(***************************************************************************)
(* Reading a packet back.  Every value stands in element content, between  *)
(* two pieces of the template.  Over the characters tried a "<" cannot     *)
(* complete a tag and a "&" cannot complete a reference (there is no "/"   *)
(* and no ";"), so a reader of XML rejects a packet holding either in a    *)
(* value, and gives back every other text as it stands.                    *)
(***************************************************************************)
\* the piece before the value of a key, the piece after it, and its default
Field ==
  [xmp_title        |-> [after |-> "Tpl0",  before |-> "Tpl1",  default |-> <<>>],
   xmp_description  |-> [after |-> "Tpl1",  before |-> "Tpl2",  default |-> <<>>],
   xmp_creator      |-> [after |-> "Tpl2",  before |-> "Tpl3",  default |-> GroundSwell],
   xmp_rights       |-> [after |-> "Tpl3",  before |-> "Tpl4",  default |-> <<>>],
   xmp_subject      |-> [after |-> "Tpl4",  before |-> "Tpl5",  default |-> <<>>],
   xmp_headline     |-> [after |-> "Tpl5",  before |-> "Tpl6",  default |-> <<>>],
   xmp_credit       |-> [after |-> "Tpl6",  before |-> "Tpl7",  default |-> GroundSwell],
   xmp_source       |-> [after |-> "Tpl7",  before |-> "Tpl8",  default |-> GroundSwell],
   xmp_date_created |-> [after |-> "Tpl8",  before |-> "Tpl9",  default |-> <<>>],
   xmp_category     |-> [after |-> "Tpl9",  before |-> "Tpl10",
                         default |-> BusinessOwnershipPlatform],
   xmp_website      |-> [after |-> "Tpl10", before |-> "Tpl11", default |-> Website],
   xmp_phone        |-> [after |-> "Tpl11", before |-> "Tpl12", default |-> Phone]]

\* the position of the piece in the packet
PieceAt(packet, piece) ==
  Min({i \in 1..Len(packet) :
         packet[i] = piece \/ (piece = "Tpl0" /\ packet[i] = "Tpl0x")})

\* what the packet holds in the place of the key
FieldText(packet, key) ==
  SubSeq(packet, PieceAt(packet, Field[key].after) + 1,
         PieceAt(packet, Field[key].before) - 1)

RECURSIVE ListItems(_)
\* the texts of the rdf:li elements of a Bag
ListItems(body) ==
  IF body = <<>> THEN <<>>
  ELSE IF Head(body) = "LiOpen"
  THEN Then(Min({i \in 1..Len(body) : body[i] = "LiClose"}), LAMBDA close :
         <<SubSeq(body, 2, close - 1)>> \o ListItems(SubSeq(body, close + 1, Len(body))))
  ELSE ListItems(Tail(body))

\* the packet as an XML reader gives it: the text of every field, and the entries
\* of the Bag under xmp_subject
ParseXmp(packet) ==
  IF \E i \in 1..Len(packet) : packet[i] \in {"<", "&"} THEN Raise("ParseError")
  ELSE Ok([key \in XmpKeys |->
             IF key = "xmp_subject" THEN ListItems(FieldText(packet, key))
             ELSE FieldText(packet, key)])

(***************************************************************************)
(* The properties of the packet builder.                                   *)
(***************************************************************************)
Built == last.op = "create_xmp_packet" /\ last.packet.ok

\* C7: a built packet can be read back, and the text read for every field that was
\* sent as a string, the characters & < > " ' among them, is the string sent
C7_ValuesRoundTrip ==
  Built =>
    \E doc \in {ParseXmp(last.packet.val)} :
      /\ doc.ok
      /\ \A key \in (XmpKeys \ {"xmp_subject"}) \cap DOMAIN last.metadata :
           last.metadata[key].t = "str" => doc.val[key] = last.metadata[key].s

\* the text between the commas of a keyword string: the k-th run of characters
\* that holds no comma
TokenAt(text, k) ==
  Then({0} \cup Positions(text, ",") \cup {Len(text) + 1}, LAMBDA cuts :
    Then(CHOOSE c \in cuts : Cardinality({d \in cuts : d < c}) = k - 1, LAMBDA from :
      SubSeq(text, from + 1, Min({d \in cuts : d > from}) - 1)))

\* a text without the whitespace at its ends
Trimmed(text) ==
  Then({i \in 1..Len(text) : text[i] \notin Whitespace}, LAMBDA inked :
    IF inked = {} THEN <<>> ELSE SubSeq(text, Min(inked), Max(inked)))

\* the comma-separated tokens of a text that are not empty once trimmed, trimmed
Tokens(text) ==
  Then([k \in 1..Cardinality(Positions(text, ",")) + 1 |-> Trimmed(TokenAt(text, k))],
       LAMBDA all : SelectSeq(all, LAMBDA token : token # <<>>))

C9_BuilderNeverFails == last.op = "create_xmp_packet" => last.packet.ok

\* C10: in a built packet every field holds the value sent when there is one and
\* it is not empty, and its default otherwise
C10_EmptyMeansDefault ==
  Built =>
    \A key \in XmpKeys \ {"xmp_subject"} :
      FieldText(last.packet.val, key) =
        IF key \in DOMAIN last.metadata /\ Format(last.metadata[key]) # <<>>
        THEN Format(last.metadata[key])
        ELSE Field[key].default

(***************************************************************************)
(* Reading a PNG stream back: its chunks, each [cid, data, length, crc]    *)
(* with length and crc the two fields as they are stored.                  *)
(***************************************************************************)
RECURSIVE ChunksFrom(_, _)
\* the chunks of the stream from element i on
ChunksFrom(data, i) ==
  IF i + 7 > Len(data) \/ \E j \in i..(i + 7) : IsBlob(data[j]) THEN <<>>
  ELSE Then(TakeEnd(data, i + 8, U32(data, i - 1)), LAMBDA e :
         IF e = -1 \/ e + 4 > Len(data) THEN <<>>
         ELSE <<[cid |-> SubSeq(data, i + 4, i + 7), data |-> SubSeq(data, i + 8, e),
                 length |-> U32(data, i - 1), crc |-> SubSeq(data, e + 1, e + 4)]>>
              \o ChunksFrom(data, e + 5))

PngChunks(data) ==
  IF StartsWith(data, PngSignature) THEN ChunksFrom(data, Len(PngSignature) + 1) ELSE <<>>

\* c is a text chunk whose data begin with the keyword and a NUL
IsTextChunk(c, key) == c.cid \in {tEXt, iTXt} /\ StartsWith(c.data, AsciiBytes(key) \o <<0>>)

\* the text chunks of the stream under the keyword
TextChunks(data, key) == SelectSeq(PngChunks(data), LAMBDA c : IsTextChunk(c, key))

\* the types of the chunks lo .. hi
Cids(chunks, lo, hi) == [i \in 1..(hi - lo + 1) |-> chunks[lo + i - 1].cid]

\* what a text chunk holds after its keyword: the kind of the chunk and the bytes
TextOf(c, key) == [cid |-> c.cid, bytes |-> SubSeq(c.data, Len(key) + 2, Len(c.data))]

(***************************************************************************)
(* The properties of the PNG writer.                                       *)
(***************************************************************************)
PngSave == Dispatched /\ SavedExt = ExtPng

\* the chunks of the output of the last save
Written == PngChunks(last.written.data)

\* C11: in the output of a PNG save the keyword string of the Comment chunk and
\* that of the Keywords chunk are the same, and the Author chunk holds the creator
\* of the packet
C11_ViewsAgree ==
  (PngSave /\ WriterSucceeded) =>
    \E comment \in {TextChunks(last.written.data, TextKeys[5])} :
    \E keywords \in {TextChunks(last.written.data, TextKeys[6])} :
    \E author \in {TextChunks(last.written.data, TextKeys[3])} :
      /\ Len(comment) = 1 /\ Len(keywords) = 1 /\ Len(author) = 1
      /\ TextOf(comment[1], TextKeys[5]) = TextOf(keywords[1], TextKeys[6])
      /\ TextOf(author[1], TextKeys[3]).bytes
           = Utf8(FieldText(create_xmp_packet(srv, last.metadata).val, "xmp_creator"))

\* C12: the output of a PNG save is the header chunk, the eleven metadata chunks in
\* the order Title, Description, Author, Copyright, Comment, Keywords, Headline,
\* Credit, Source, Creation Time, XMP, and then the chunks that follow the header
\* in the upload, in their order, the end chunk last
C12_ChunkSequence ==
  (PngSave /\ WriterSucceeded) =>
    \E out \in {Written} : \E orig \in {PngChunks(last.image_data)} :
      /\ Len(out) >= 13
      /\ out[1].cid = IHDR
      /\ \A i \in 1..10 : IsTextChunk(out[i + 1], TextKeys[i])
      /\ IsTextChunk(out[12], KeyXmp)
      /\ Cids(out, 13, Len(out)) = Cids(orig, 2, Len(orig))
      /\ out[Len(out)].cid = IEND
      /\ \A i \in 1..12 : out[i].cid # IDAT

\* the record field behind each of the ten text chunks, and its default
ChunkField ==
  << [key |-> "xmp_title",         default |-> <<>>],
     [key |-> "xmp_description",   default |-> <<>>],
     [key |-> "exif_artist",       default |-> GroundSwell],
     [key |-> "exif_copyright",    default |-> <<>>],
     [key |-> "exif_user_comment", default |-> <<>>],
     [key |-> "iptc_keywords",     default |-> <<>>],
     [key |-> "iptc_headline",     default |-> <<>>],
     [key |-> "iptc_credit",       default |-> GroundSwell],
     [key |-> "xmp_source",        default |-> GroundSwell],
     [key |-> "exif_create_date",  default |-> <<>>] >>

\* the value of the saved record behind the i-th text chunk
ChunkValue(i) == Get(last.metadata, ChunkField[i].key, ChunkField[i].default).s

\* C13 as stated: the data of each of the ten text chunks of a PNG save are the
\* keyword, a NUL and the value of the field, whatever the value
C13_PayloadIsKeyNulValue ==
  (PngSave /\ WriterSucceeded) =>
    \E out \in {Written} : \A i \in 1..10 :
      \/ /\ IsLatin1(ChunkValue(i))
         /\ out[i + 1].data = AsciiBytes(TextKeys[i]) \o <<0>> \o Latin1(ChunkValue(i))
      \/ out[i + 1].data = AsciiBytes(TextKeys[i]) \o <<0>> \o Utf8(ChunkValue(i))

\* C13 amended: the i-th text chunk of a PNG save is a tEXt chunk holding the
\* keyword, a NUL and the Latin-1 bytes of the value when the value has them, and
\* otherwise an iTXt chunk holding the keyword, five NULs and its UTF-8 bytes
C13_PayloadByCharset ==
  (PngSave /\ WriterSucceeded) =>
    \E out \in {Written} : \A i \in 1..10 :
      IF IsLatin1(ChunkValue(i))
      THEN /\ out[i + 1].cid = tEXt
           /\ out[i + 1].data = AsciiBytes(TextKeys[i]) \o <<0>> \o Latin1(ChunkValue(i))
      ELSE /\ out[i + 1].cid = iTXt
           /\ out[i + 1].data
                = AsciiBytes(TextKeys[i]) \o <<0, 0, 0, 0, 0>> \o Utf8(ChunkValue(i))

C13_Witness ==
  \E out \in {Written} :
    /\ PngSave /\ WriterSucceeded
    /\ ChunkValue(1) = <<ServiceMark>>
    /\ ChunkValue(2) = FormValue("xmp_description")
    /\ out[2].cid = iTXt
    /\ out[3].data = AsciiBytes(TextKeys[2]) \o <<0>> \o AsciiBytes(ChunkValue(2))

\* C14: every chunk a PNG save inserts stores, as its CRC, the CRC-32 of its type
\* followed by its data and, as its length, the number of bytes of its data
C14_CrcAndLength ==
  (PngSave /\ WriterSucceeded) =>
    \E out \in {Written} : \A i \in 2..12 :
      /\ out[i].crc = Crc32(out[i].cid \o out[i].data)
      /\ out[i].length = ByteLen(out[i].data)

C14_Witness ==
  \E out \in {Written} :
    /\ PngSave /\ WriterSucceeded
    /\ last.metadata = Form
    /\ Len(out) >= 13
    /\ out[2].cid = tEXt
    /\ out[2].length = Len(TextKeys[1]) + 1 + Len(FormValue("xmp_title"))
    /\ out[2].crc = Crc32(tEXt \o AsciiBytes(TextKeys[1]) \o <<0>>
                              \o AsciiBytes(FormValue("xmp_title")))

(***************************************************************************)
(* The properties of the EXIF block of a JPEG save.                        *)
(***************************************************************************)
\* a JPEG save that left a stream
JpegWritten == JpegSave /\ last.werr = "" /\ last.written.exists

\* the EXIF block of a stream, read back: Ok(exif_dict) or an exception
ExifOf(data) ==
  Then(ImageOpen(data), LAMBDA img : IF ~img.ok THEN img ELSE piexif_load(img.val.exif))

\* the UTF-8 bytes of the field of the saved record
FieldBytes(key, default) == Utf8(Get(last.metadata, key, default).s)

\* C15: the EXIF block of every JPEG save holds Artist, Copyright and
\* ImageDescription in the 0th IFD, each with the UTF-8 bytes of its field (no
\* bytes for an empty field), and UserComment in the Exif IFD with the bytes
\* ASCII NUL NUL NUL followed by the UTF-8 bytes of the keyword string
C15_FourTagsPresent ==
  JpegWritten =>
    \E d \in {ExifOf(last.written.data)} :
      /\ d.ok
      /\ {TagArtist, TagCopyright, TagImageDescription} \subseteq DOMAIN d.val.zeroth
      /\ TagUserComment \in DOMAIN d.val.exif
      /\ d.val.zeroth[TagArtist] = FieldBytes("exif_artist", GroundSwell)
      /\ d.val.zeroth[TagCopyright] = FieldBytes("exif_copyright", <<>>)
      /\ d.val.zeroth[TagImageDescription] = FieldBytes("exif_description", <<>>)
      /\ d.val.exif[TagUserComment]
           = <<65, 83, 67, 73, 73, 0, 0, 0>> \o FieldBytes("exif_user_comment", <<>>)

C15_Witness ==
  /\ JpegWritten
  /\ "exif_copyright" \in DOMAIN last.metadata
  /\ last.metadata["exif_copyright"] = JStr(<<>>)
  /\ \E d \in {ExifOf(last.written.data)} :
       d.ok /\ TagCopyright \in DOMAIN d.val.zeroth /\ d.val.zeroth[TagCopyright] = <<>>

\* the tags of an IFD other than those the writer sets and the pointer to the Exif IFD
OtherTags(ifd) ==
  [t \in DOMAIN ifd \ {TagArtist, TagCopyright, TagImageDescription, TagUserComment,
                        TagExifIFD} |-> ifd[t]]

\* C16: the EXIF block of a JPEG save holds every other tag of the block of the
\* upload with its value, no other tag when the upload has no readable block, and
\* neither a 1st IFD nor a thumbnail
C16_OtherTagsKeptNoThumbnail ==
  JpegWritten =>
    \E src \in {ExifOf(last.image_data)} : \E out \in {ExifOf(last.written.data)} :
    \E had \in {IF src.ok THEN src.val ELSE EmptyExif} :
      /\ out.ok
      /\ OtherTags(out.val.zeroth) = OtherTags(had.zeroth)
      /\ OtherTags(out.val.exif) = OtherTags(had.exif)
      /\ out.val.first = EmptyFn
      /\ out.val.thumbnail = <<>>

(***************************************************************************)
(* The XMP segments of a written JPEG stream.                              *)
(***************************************************************************)
RECURSIVE XmpSegmentsFrom(_, _)
\* the XMP segments among the marker segments from element i on: where each starts
\* and the packet it carries
XmpSegmentsFrom(data, i) ==
  IF i + 3 > Len(data) \/ \E j \in i..(i + 3) : IsBlob(data[j]) THEN <<>>
  ELSE IF data[i] # 255 \/ data[i + 1] \notin (224..239) \cup {254} THEN <<>>
  ELSE LET n == data[i + 2] * 256 + data[i + 3]
       IN Then(IF n < 2 THEN -1 ELSE TakeEnd(data, i + 4, n - 2), LAMBDA e :
            IF e = -1 THEN <<>>
            ELSE (IF data[i + 1] = 225 /\ StartsWith(SubSeq(data, i + 4, e), xmp_header)
                  THEN << [at |-> i,
                           packet |-> SubSeq(data, i + 4 + Len(xmp_header), e)] >>
                  ELSE <<>>)
                 \o XmpSegmentsFrom(data, e + 1))

XmpSegmentsOf(data) == IF StartsWith(data, SOI) THEN XmpSegmentsFrom(data, 3) ELSE <<>>

\* a JPEG save that left a stream with the new XMP segment embedded
XmpEmbedded == JpegWritten /\ (srv = "app" => last.xmp = "True")

\* the upload of the last save carries an XMP segment already
SourceHasXmp == XmpSegmentsOf(last.image_data) # <<>>

C18_SavesKeepUploads ==
  [][last'.op = "save" =>
       /\ file_storage' = file_storage
       /\ \A name \in DOMAIN upload_dir :
            name \in DOMAIN upload_dir' /\ upload_dir'[name] = upload_dir[name]
       /\ Stored(last'.file_id) => last'.status # 404]_vars

\* C19: a save that ran in parallel with another leaves, when it returns, the file it
\* leaves when it runs alone, with exactly one XMP segment
C19_ParallelSavesAlone ==
  \A p \in Procs :
    proc[p].pc = "done" =>
      \E alone \in {write_metadata_to_jpeg(upload_dir[proc[p].upload], NoFile,
                                           proc[p].metadata)} :
        /\ proc[p].result = alone.file
        /\ Len(XmpSegmentsOf(proc[p].result.data)) = 1

\* the objects of the answers tried, written out
JsonObjects ==
  { <<"{", "}">>, <<"{", Key, "1", "}">>, <<"{", Key, "{", "}", "}">>,
    <<"{", Key, "{", Key, "1", "}", "}">>, <<"{", Key, "{", Key, "{", "}", "}", "}">> }

\* the answer holds no text between a first "{" and a last "}" that is an object
Unparsable(response_text) ==
  \/ Positions(response_text, "{") = {}
  \/ Positions(response_text, "}") = {}
  \/ SubSeq(response_text, Min(Positions(response_text, "{")),
            Max(Positions(response_text, "}"))) \notin JsonObjects

\* C20: for an answer that cannot be parsed as an object the analysis returns the
\* mapping made from the name of the file, and raises nothing
C20_FallbackOnUnparsable ==
  (last.op = "analyze" /\ Unparsable(last.response)) =>
    /\ last.analysis.ok
    /\ last.analysis.val = Fallback(last.filename, <<"Today">>)

PictureAt(data) ==
  IF \E i \in 1..Len(data) : IsBlob(data[i]) /\ BlobKind(data[i]) = 3
  THEN Max({i \in 1..Len(data) : IsBlob(data[i]) /\ BlobKind(data[i]) = 3})
  ELSE 0

\* the stream from its coded picture through the end-of-image marker
ImageData(data) == IF PictureAt(data) = 0 THEN <<>> ELSE SubSeq(data, PictureAt(data), Len(data))

\* the upload of the last save is a JPEG stream
SourceIsJpeg ==
  \E img \in {ImageOpen(last.image_data)} : img.ok /\ img.val.format = "JPEG"

\* C21: the stream a JPEG save leaves holds, from the coded picture through the
\* end-of-image marker, the bytes the upload holds there
C21_ImageDataUntouched ==
  (JpegWritten /\ SourceIsJpeg) => ImageData(last.written.data) = ImageData(last.image_data)

(***************************************************************************)
(* The splice of the XMP segment.                                          *)
(***************************************************************************)
\* the stream the codec produced in the last save (J): Ok(stream) or an exception
CodecStream ==
  Then(ImageOpen(last.image_data), LAMBDA opened :
    IF ~opened.ok THEN opened ELSE
  Then(SetExifFields(opened.val, last.metadata), LAMBDA exif_dict :
    IF ~exif_dict.ok THEN exif_dict
    ELSE SaveJpeg(opened.val, piexif_dump(exif_dict.val))))

\* the XMP segment built in the last save (S): Ok(segment) or an exception
BuiltSegment ==
  Then(create_xmp_packet(srv, last.metadata), LAMBDA xmp_data :
    IF ~xmp_data.ok THEN xmp_data ELSE XmpSegment(xmp_data.val))

\* where the EXIF segments of a stream start
ExifSegmentsAt(data) ==
  {i \in 1..(Len(data) - 3) :
     /\ SubSeq(data, i, i + 1) = <<255, 225>>
     /\ StartsWith(SubSeq(data, i + 4, Len(data)), ExifHeader)}

\* C22: the stream a JPEG save leaves with the segment embedded is J[0:2] + S + J[2:]:
\* as long as J and S together, J again once S is taken out, and with the EXIF
\* segment of the codec behind S
C22_SpliceOnlyInserts ==
  XmpEmbedded =>
    \E J \in {CodecStream} : \E S \in {BuiltSegment} : \E out \in {last.written.data} :
      /\ J.ok /\ S.ok
      /\ out = SubSeq(J.val, 1, 2) \o S.val \o SubSeq(J.val, 3, Len(J.val))
      /\ ByteLen(out) = ByteLen(J.val) + ByteLen(S.val)
      /\ SubSeq(out, 1, 2) \o SubSeq(out, 3 + Len(S.val), Len(out)) = J.val
      /\ ExifSegmentsAt(out) # {}
      /\ \A i \in ExifSegmentsAt(out) : i > 2 + Len(S.val)

C22_Witness ==
  /\ XmpEmbedded
  /\ last.image_data = JpegExifFile
  /\ \E S \in {BuiltSegment} :
       S.ok /\ SubSeq(last.written.data, 3, 2 + Len(S.val)) = S.val
            /\ ExifSegmentsAt(last.written.data) = {3 + Len(S.val) + Len(JfifSegment)}

(***************************************************************************)
(* The writer a save selects.                                              *)
(***************************************************************************)
\* what a writer leaves for the upload and the record of the last save, the output
\* being new: [file, err]
WriterResult(writer) ==
  IF writer = "none" THEN [file |-> File(last.image_data), err |-> ""]
  ELSE IF srv = "api"
       THEN \* the writers of the in-memory server return the stream or raise
            LET r == IF writer = "jpeg" THEN process_jpeg_metadata(last.image_data, last.metadata)
                     ELSE process_png_metadata(last.image_data, last.metadata)
            IN [file |-> IF r.ok THEN File(r.val) ELSE NoFile, err |-> r.err]
  ELSE LET r == IF writer = "jpeg"
                THEN write_metadata_to_jpeg(last.image_data, NoFile, last.metadata)
                ELSE write_metadata_to_png(last.image_data, NoFile, last.metadata)
       IN [file |-> r.file, err |-> r.err]

\* the writer the extension of the stored name stands for
WriterOfExt(ext) ==
  IF ext \in {ExtJpg, ExtJpeg} THEN "jpeg" ELSE IF ext = ExtPng THEN "png" ELSE "none"

\* C23: a save hands the upload to the writer its stored name stands for, by the
\* extension in lower case, whatever the bytes are
C23_WriterByExtension ==
  Dispatched =>
    \E expected \in {WriterResult(WriterOfExt(SavedExt))} :
      last.written = expected.file /\ last.werr = expected.err

C23_Witness ==
  /\ Dispatched
  /\ srv = "api"
  /\ last.filename = NameJpg
  /\ last.image_data = PngFile
  /\ last.written.exists
  /\ StartsWith(last.written.data, SOI)

(***************************************************************************)
(* The store of the uploads.                                               *)
(***************************************************************************)
\* an upload is stored under exactly this id
StoredUnder(file_id) ==
  IF srv = "api" THEN file_id \in DOMAIN file_storage
  ELSE \E name \in DOMAIN upload_dir : StartsWith(name, file_id \o Original \o <<".">>)

\* C24: a save that names an id under which no upload is stored is answered 404 and
\* leaves the uploads and the outputs as they are
C24_UnknownIdChangesNothing ==
  [][(last'.op = "save" /\ ~StoredUnder(last'.file_id)) =>
       /\ last'.status = 404
       /\ file_storage' = file_storage
       /\ upload_dir' = upload_dir
       /\ processed_dir' = processed_dir]_vars

\* C25: an upload leaves an entry exactly when it is answered 200: one refused with
\* 400 leaves the store as it is, one whose analysis raises leaves no entry under its
\* id, and a save that names an id the server gave out and holds no entry for gets 404
C25_StoredIffSucceeded ==
  [][/\ (last'.op = "upload" /\ last'.status = 400) =>
          (file_storage' = file_storage /\ upload_dir' = upload_dir)
     /\ (last'.op = "upload" /\ last'.status # 400) =>
          (last'.status = 200 <=>
             IF srv = "api" THEN last'.file_id \in DOMAIN file_storage'
             ELSE \E name \in DOMAIN upload_dir' :
                    StartsWith(name, last'.file_id \o Original \o <<".">>))
     /\ (last'.op = "save" /\ last'.file_id \in FileIds /\ ~StoredUnder(last'.file_id)) =>
          last'.status = 404]_vars

\* C26: in the file-based server, a save that answers with a download_url has left the
\* file of that name in the directory of the outputs, so a download of it finds it
C26_DownloadFindsOutput ==
  (srv = "app" /\ last.op = "save" /\ last.status = 200) =>
    last.out_name \in DOMAIN processed_dir

\* C27: in the file-based server, a JPEG save that reports metadata_written true has
\* left a stream that holds both the EXIF block and the XMP segment, the embedding of
\* which returned True
C27_WrittenMeansBothPresent ==
  (srv = "app" /\ JpegSave /\ last.op = "save" /\ last.metadata_written = "true") =>
    /\ last.written.exists
    /\ ExifSegmentsAt(last.written.data) # {}
    /\ last.xmp = "True"
    /\ XmpSegmentsOf(last.written.data) # <<>>

\* C28: in the file-based server, the upload a save processes is a file whose name
\* starts with the file_id of the request, taken literally, followed by _original.
C28_SelectedByLiteralId ==
  (srv = "app" /\ last.op = "save" /\ last.status # 404) =>
    StartsWith(last.filename, last.file_id \o Original \o <<".">>)

\* C29: an upload or a save leaves every upload stored before it in place, under its
\* id, with its bytes and its filename
C29_UploadsIsolated ==
  [][last'.op \in {"upload", "save"} =>
       /\ \A file_id \in DOMAIN file_storage :
            file_id \in DOMAIN file_storage' /\ file_storage'[file_id] = file_storage[file_id]
       /\ \A name \in DOMAIN upload_dir :
            name \in DOMAIN upload_dir' /\ upload_dir'[name] = upload_dir[name]]_vars

\* the extension under which the file-based server stores an upload of this name
AppStoredExt(original_filename) ==
  IF Suffix(original_filename) = <<>> THEN ExtJpg ELSE Suffix(original_filename)

\* C30: the writer the in-memory server selects for the uploaded filename is the one
\* the file-based server selects for the name it stores that upload under
C30_SameWriter ==
  (srv = "api" /\ Dispatched) =>
    WriterOfExt(SavedExt) = WriterOfExt(Lower(AppStoredExt(last.filename)))
====
